---- MODULE Spec2Model ----
(***************************************************************************)
(* A model of the single-threaded VNC server coordinator                   *)
(* (common/rfb/VNCServerST.cxx) together with the Windows display backend  *)
(* (win/rfb_win32/SDisplay.cxx) it drives.                                 *)
(*                                                                         *)
(* Every public operation of VNCServerST is one action.  The body of an    *)
(* operation is written as a function from a record of the object's fields *)
(* to the record after the call, so that the calls an operation makes      *)
(* (startFrameClock, stopDesktop, the backend calling back into            *)
(* setPixelBuffer, ...) are part of the same step, as they are in the      *)
(* single-threaded program.  Cur is the record of the current fields and   *)
(* Commit(r) installs a record as the next state.                          *)
(*                                                                         *)
(* A VNCSConnectionST is identified by the socket it was created for.      *)
(***************************************************************************)
EXTENDS Integers, Sequences, FiniteSets, TLC

\* ------------------------------------------------------------- bounds
\* sockets the embedder hands out
NumSockets == 2
\* cap on the length of closingSockets
MaxClosing == 2
\* cap on the length of clipboardRequestors
MaxRequestors == 2
\* cap on msc and on the targets given to queueMsc
MaxMsc == 3
\* cap on the nesting of blockUpdates
MaxBlock == 2
\* cap on the number of calls made between blockUpdates and unblockUpdates
MaxWork == 1
\* The largest LED state the backend reports.
MaxLed == 2

\* ---------------------------------------------------------- constants
\* nullptr for a VNCSConnectionST* / Socket*
NoClient == 0
\* ledUnknown, the initial ledState
LedUnknown == -1
\* The seconds a pointer grab shuts other clients out after its last event.
GrabSeconds == 10
\* The largest framebuffer side setDesktopSize lets a client ask for.
MaxFbSize == 16384
\* reasonOtherClient, the reason given to the clients that did not ask.
ReasonOtherClient == 2

Sockets == 1..NumSockets
FrameSockets == {1}

NoPb == [w |-> 0, h |-> 0]                     \* nullptr for a PixelBuffer*
PixelBuffers == {[w |-> 1, h |-> 1], [w |-> 2, h |-> 1]}

Rect(x1, y1, x2, y2) == [x1 |-> x1, y1 |-> y1, x2 |-> x2, y2 |-> y2]
Screen(id, x, y, w, h) == [id |-> id, dim |-> Rect(x, y, x + w, y + h)]

\* Layouts a caller may pass: empty, one screen of several sizes (one of
\* them empty, one wider than every PixelBuffer), and two screens.
Layouts ==
  { {},
    {Screen(0, 0, 0, 0, 1)},
    {Screen(0, 0, 0, 1, 1)},
    {Screen(0, 0, 0, 2, 1)},
    {Screen(0, 0, 0, 3, 1)},
    {Screen(0, 0, 0, 1, 1), Screen(1, 1, 0, 1, 1)} }

\* rfb::Server parameters read by the coordinator.
DefaultConfig ==
  [ maxIdleTime |-> 0, maxDisconnectionTime |-> 0, maxConnectionTime |-> 0,
    neverShared |-> FALSE, disconnectClients |-> TRUE, queryConnect |-> FALSE,
    acceptCutText |-> TRUE, sendCutText |-> TRUE,
    acceptKeyEvents |-> TRUE, acceptPointerEvents |-> TRUE,
    acceptSetDesktopSize |-> TRUE ]

\* -------------------------------------------------------------- state
VARIABLES
  cfg,                  \* the rfb::Server parameters of this run
  \* VNCServerST fields
  clients,              \* std::list<VNCSConnectionST*>, front first
  closingSockets,       \* std::list<network::Socket*>
  pointerClient, pointerClientAge, clipboardClient, clipboardRequestors,
  desktopStarted, blockCounter, pb, comparer, screenLayout,
  renderedCursorInvalid, ledState, msc, queuedMsc,
  frameTimer, idleTimer, disconnectTimer, connectTimer,
  \* VNCSConnectionST (external): which connections are authenticated
  authenticated,
  \* SDisplay fields
  core, sdPb, sdLedState,
  \* the process: "none", or the fault that ended it
  fault,
  \* observation: the sockets the embedder has added and not yet removed,
  \* the last operation with its outcome, and the calls it made
  added, lastOp, calls

vars == << cfg, clients, closingSockets, pointerClient, pointerClientAge,
           clipboardClient, clipboardRequestors, desktopStarted, blockCounter,
           pb, comparer, screenLayout, renderedCursorInvalid, ledState,
           msc, queuedMsc,
           frameTimer, idleTimer, disconnectTimer, connectTimer,
           authenticated, core, sdPb, sdLedState, fault, added, lastOp,
           calls >>

\* The fields as one record; result and calls are those of the operation
\* in progress.
Cur ==
  [ clients |-> clients, closingSockets |-> closingSockets,
    pointerClient |-> pointerClient, pointerClientAge |-> pointerClientAge,
    clipboardClient |-> clipboardClient,
    clipboardRequestors |-> clipboardRequestors,
    desktopStarted |-> desktopStarted, blockCounter |-> blockCounter,
    pb |-> pb, comparer |-> comparer, screenLayout |-> screenLayout,
    renderedCursorInvalid |-> renderedCursorInvalid, ledState |-> ledState,
    msc |-> msc, queuedMsc |-> queuedMsc,
    frameTimer |-> frameTimer, idleTimer |-> idleTimer,
    disconnectTimer |-> disconnectTimer, connectTimer |-> connectTimer,
    authenticated |-> authenticated, core |-> core, sdPb |-> sdPb,
    sdLedState |-> sdLedState,
    fault |-> "none", result |-> "ok", calls |-> << >> ]

\* The state after operation op (on socket sock) that ended in record r.
Commit(op, sock, r) ==
  /\ clients' = r.clients
  /\ closingSockets' = r.closingSockets
  /\ pointerClient' = r.pointerClient
  /\ pointerClientAge' = r.pointerClientAge
  /\ clipboardClient' = r.clipboardClient
  /\ clipboardRequestors' = r.clipboardRequestors
  /\ desktopStarted' = r.desktopStarted
  /\ blockCounter' = r.blockCounter
  /\ pb' = r.pb
  /\ comparer' = r.comparer
  /\ screenLayout' = r.screenLayout
  /\ renderedCursorInvalid' = r.renderedCursorInvalid
  /\ ledState' = r.ledState
  /\ msc' = r.msc
  /\ queuedMsc' = r.queuedMsc
  /\ frameTimer' = r.frameTimer
  /\ idleTimer' = r.idleTimer
  /\ disconnectTimer' = r.disconnectTimer
  /\ connectTimer' = r.connectTimer
  /\ authenticated' = r.authenticated
  /\ core' = r.core
  /\ sdPb' = r.sdPb
  /\ sdLedState' = r.sdLedState
  /\ fault' = r.fault
  /\ lastOp' = [op |-> op, sock |-> sock, result |-> r.result]
  /\ calls' = r.calls
  /\ cfg' = cfg

\* ------------------------------------------------------------ helpers
InSeq(seq, x) == \E i \in 1..Len(seq) : seq[i] = x
Remove(seq, x) == SelectSeq(seq, LAMBDA y : y # x)       \* std::list::remove
SeqSet(seq) == {seq[i] : i \in 1..Len(seq)}

Max(a, b) == IF a > b THEN a ELSE b
Min(a, b) == IF a < b THEN a ELSE b

\* One call made by the operation in progress: to the backend ("desktop"),
\* or to connection c, or on socket c.
CallA(s, t, c, m, a) ==
  [s EXCEPT !.calls = Append(@, [to |-> t, c |-> c, m |-> m, arg |-> a])]
Call(s, t, c, m) == CallA(s, t, c, m, 0)

\* The same call made on every connection in seq, in list order.
CallEachA(s, seq, m, a) ==
  [s EXCEPT !.calls = @ \o [i \in 1..Len(seq) |->
                 [to |-> "client", c |-> seq[i], m |-> m, arg |-> a]]]
CallEach(s, seq, m) == CallEachA(s, seq, m, 0)

Throw(s, what) == [s EXCEPT !.result = what]
Crash(s, what) == [s EXCEPT !.fault = what, !.result = what]
Ok(s) == s.result = "ok" /\ s.fault = "none"

\* ------------------------------------------- core::Rect and ScreenSet
IsEmpty(r) == r.x2 <= r.x1 \/ r.y2 <= r.y1
EnclosedBy(r, f) ==
  r.x1 >= f.x1 /\ r.y1 >= f.y1 /\ r.x2 <= f.x2 /\ r.y2 <= f.y2
Intersect(r, f) ==
  LET x1 == Max(r.x1, f.x1)
      y1 == Max(r.y1, f.y1)
  IN  Rect(x1, y1, Max(Min(r.x2, f.x2), x1), Max(Min(r.y2, f.y2), y1))
GetRect(p) == Rect(0, 0, p.w, p.h)                     \* PixelBuffer::getRect

\* ScreenSet::validate(fb_width, fb_height)
Validate(layout, w, h) ==
  /\ layout # {}
  /\ \A sc \in layout :
       ~IsEmpty(sc.dim) /\ EnclosedBy(sc.dim, Rect(0, 0, w, h))

\* ------------------------------------------------------ frame clock
\* "Anyone actually interested in frames?": the test shared by
\* startFrameClock and the frame tick.
NothingPending(s) == ~s.desktopStarted \/ s.comparer = "empty"

\* startFrameClock() as it would be without its blockCounter test.
StartFrameClockUnblocked(s) ==
  IF s.frameTimer THEN s
  ELSE IF NothingPending(s) /\ s.queuedMsc < s.msc THEN s
  ELSE [s EXCEPT !.frameTimer = TRUE]

\* startFrameClock() as it would be if only pending updates counted.
StartFrameClockIgnoresMsc(s) ==
  IF s.frameTimer THEN s
  ELSE IF s.blockCounter > 0 THEN s
  ELSE IF NothingPending(s) THEN s
  ELSE [s EXCEPT !.frameTimer = TRUE]

StartFrameClock(s) ==
  IF s.frameTimer THEN s
  ELSE IF s.blockCounter > 0 THEN s
  ELSE IF NothingPending(s) /\ s.queuedMsc < s.msc THEN s
  ELSE [s EXCEPT !.frameTimer = TRUE]   \* 1000 ms, or half a frame

StopFrameClock(s) == [s EXCEPT !.frameTimer = FALSE]

\* add_changed(region), add_copied(dest, delta): nonEmpty says whether the
\* region holds any pixel.
\* add_changed as it would be without its call of startFrameClock().
AddToComparerNoClock(s, nonEmpty) ==
  IF s.comparer = "null" THEN s
  ELSE [s EXCEPT !.comparer = IF nonEmpty THEN "dirty" ELSE @]

AddToComparer(s, nonEmpty) ==
  IF s.comparer = "null" THEN s
  ELSE StartFrameClock(
         [s EXCEPT !.comparer = IF nonEmpty THEN "dirty" ELSE @])

\* What each connection is fed by writeUpdate, connection by connection.
FeedMethods == << "add_copied", "add_changed", "writeFramebufferUpdateOrClose" >>
\* The feeding as it would be with add_changed ahead of add_copied.
FeedCallsChangedFirst(seq) ==
  [i \in 1..(3 * Len(seq)) |->
     [to |-> "client", c |-> seq[((i - 1) \div 3) + 1],
      m |-> << "add_changed", "add_copied",
               "writeFramebufferUpdateOrClose" >>[((i - 1) % 3) + 1],
      arg |-> 0]]

FeedCalls(seq) ==
  [i \in 1..(3 * Len(seq)) |->
     [to |-> "client", c |-> seq[((i - 1) \div 3) + 1],
      m |-> FeedMethods[((i - 1) % 3) + 1], arg |-> 0]]

\* writeUpdate(); env.cursorHit: some connection needs the rendered cursor
\* and the update touches it; env.ndebug: assert() is compiled out.
WriteUpdate(s, env) ==
  IF ~(s.blockCounter = 0 /\ s.desktopStarted /\ s.comparer # "null")
       /\ ~env.ndebug
  THEN Crash(Call(s, "server", NoClient, "writeUpdate"), "assert")
  ELSE IF s.comparer = "null" \/ s.pb = NoPb
  THEN Crash(Call(s, "server", NoClient, "writeUpdate"), "nullderef")
  ELSE [s EXCEPT !.renderedCursorInvalid = @ \/ env.cursorHit,
                 !.comparer = "empty",
                 !.calls = @ \o << [to |-> "server", c |-> NoClient,
                                     m |-> "writeUpdate", arg |-> 0],
                                    [to |-> "comparer", c |-> NoClient,
                                     m |-> "clear", arg |-> 0] >>
                             \o FeedCalls(s.clients)]

\* ------------------------------------------------- setPixelBuffer
\* setPixelBuffer(pb_, layout)
PixelBufferChange(s4) == CallEach(s4, s4.clients, "pixelBufferChange")

SetPixelBuffer2(s, p, layout) ==
  IF p = NoPb
  THEN IF s.desktopStarted
       THEN Throw([s EXCEPT !.pb = p, !.comparer = "null",
                            !.screenLayout = {}], "logic_error")
       ELSE [s EXCEPT !.pb = p, !.comparer = "null", !.screenLayout = {}]
  ELSE IF ~Validate(layout, p.w, p.h)
  THEN Throw([s EXCEPT !.pb = p, !.comparer = "null"], "invalid_argument")
  ELSE PixelBufferChange(
         AddToComparer([s EXCEPT !.pb = p,
                                 !.screenLayout = layout,
                                 !.comparer = "empty",
                                 !.renderedCursorInvalid = TRUE],
                       ~IsEmpty(GetRect(p))))

\* The layout setPixelBuffer(pb_) derives from the current one.
ClipLayout(layout, p) ==
  LET fb == Rect(0, 0, p.w, p.h)
      gone == {sc.id : sc \in {t \in layout :
                 ~EnclosedBy(t.dim, fb) /\ IsEmpty(Intersect(t.dim, fb))}}
  IN  {[id |-> sc.id,
        dim |-> IF EnclosedBy(sc.dim, fb) THEN sc.dim
                ELSE Intersect(sc.dim, fb)] :
         sc \in {t \in layout : t.id \notin gone}}

\* setPixelBuffer(pb_)
SetPixelBuffer1(s, p) ==
  LET layout == IF p # NoPb /\ ~Validate(s.screenLayout, p.w, p.h)
                THEN ClipLayout(s.screenLayout, p)
                ELSE s.screenLayout
  IN  IF layout = {}
      THEN IF p = NoPb THEN Crash(s, "nullderef")    \* pb_->width()
           ELSE SetPixelBuffer2(s, p, {Screen(0, 0, 0, p.w, p.h)})
      ELSE SetPixelBuffer2(s, p, layout)

\* The broadcast as it would be without the comparison with ledState.
SetLEDStateAlways(s, state) ==
  CallEachA([s EXCEPT !.ledState = state], s.clients,
            "setLEDStateOrClose", state)

\* setLEDState(state)
SetLEDState(s, state) ==
  IF state = s.ledState THEN s
  ELSE CallEachA([s EXCEPT !.ledState = state], s.clients,
                 "setLEDStateOrClose", state)

\* closeClients as it would be if closing a connection dropped it from
\* clients at once.
CloseClientsAndForget(s, except) ==
  [CallEach(s, SelectSeq(s.clients, LAMBDA c : c # except), "close")
     EXCEPT !.clients = SelectSeq(@, LAMBDA c : c = except)]

\* closeClients(reason, except)
CloseClients(s, except) ==
  CallEach(s, SelectSeq(s.clients, LAMBDA c : c # except), "close")

\* ------------------------------------------------------- SDisplay
\* recreatePixelBuffer(true) as startCore calls it: the change tracker was
\* cleared just before, so there is nothing to flush.
SD_recreatePixelBuffer(s, newPb) ==
  SetPixelBuffer1([s EXCEPT !.sdPb = newPb], newPb)

\* startCore(); outcome: "early" (not the console session, no input
\* desktop), "late" (no SDisplayCore could be created), "ok".
SD_createCore(s1, outcome, led) ==
  IF ~Ok(s1) THEN s1
  ELSE IF outcome = "late" THEN Throw(s1, "runtime_error")
  ELSE SetLEDState([s1 EXCEPT !.core = TRUE, !.sdLedState = led], led)

SD_startCore(s, outcome, newPb, led) ==
  IF outcome = "early" THEN Throw(s, "runtime_error")
  ELSE SD_createCore(SD_recreatePixelBuffer(s, newPb), outcome, led)

\* stopCore()
SD_stopCore(s) == [s EXCEPT !.core = FALSE, !.sdPb = NoPb]

\* start()
SD_start(s, outcome, newPb, led) == SD_startCore(s, outcome, newPb, led)

\* stop()
SD_stopTail(s1) == IF ~Ok(s1) THEN s1 ELSE SD_stopCore(s1)
SD_stop(s) == SD_stopTail(SetPixelBuffer1(s, NoPb))

\* ------------------------------------------- startDesktop, stopDesktop
\* env: what the backend and the connections do during the operation:
\* [start, pb, led, cursorHit, ndebug, ...].
\* The frame clock is restarted so that it runs at the desktop's rate.
RestartFrameClock(s3) ==
  IF ~Ok(s3) THEN s3
  ELSE IF s3.frameTimer THEN StartFrameClock(StopFrameClock(s3))
  ELSE s3

\* startDesktop() once desktop->start() has returned.
DesktopStarted(s1, env) ==
  IF ~Ok(s1) THEN s1
  ELSE IF s1.pb = NoPb
  THEN Throw(s1, "logic_error")
  ELSE IF s1.comparer = "null"
  THEN Crash([s1 EXCEPT !.desktopStarted = TRUE],
             IF env.ndebug THEN "nullderef" ELSE "assert")
  ELSE IF s1.comparer # "empty"
  THEN RestartFrameClock(WriteUpdate([s1 EXCEPT !.desktopStarted = TRUE], env))
  ELSE RestartFrameClock([s1 EXCEPT !.desktopStarted = TRUE])
StartDesktopAgain(s, env) ==
  DesktopStarted(SD_start(Call(s, "desktop", NoClient, "start"),
                          env.start, env.pb, env.led), env)

StartDesktop(s, env) ==
  IF s.desktopStarted THEN s
  ELSE DesktopStarted(SD_start(Call(s, "desktop", NoClient, "start"),
                               env.start, env.pb, env.led), env)

StopDesktop(s) ==
  IF s.desktopStarted
  THEN SD_stop(Call([s EXCEPT !.desktopStarted = FALSE],
                    "desktop", NoClient, "stop"))
  ELSE s

\* authClientCount()
AuthClientCount(s) ==
  Cardinality({i \in 1..Len(s.clients) : s.clients[i] \in s.authenticated})

\* restartCore()
SD_restartCatch(s1) ==
  IF s1.fault # "none" THEN s1
  ELSE IF s1.result # "ok"
  THEN CloseClients([s1 EXCEPT !.result = "ok"], NoClient)
  ELSE s1

SD_restartCore(s, env) ==
  SD_restartCatch(SD_startCore(SD_stopCore(s), env.start, env.pb, env.led))

\* SDisplay::pointerEvent(pos, buttonmask); env.inside: pos lies in the
\* pixel buffer, env.restart: isRestartRequired().
SD_pointerEvent(s, env) ==
  IF s.sdPb = NoPb THEN Crash(s, "nullderef")           \* pb->getRect()
  ELSE IF ~env.inside THEN s
  ELSE IF env.restart THEN SD_restartCore(s, env)
  ELSE s

\* ------------------------------------------------------------- Init
InitWith(configs) ==
  /\ cfg \in configs
  /\ clients = << >>
  /\ closingSockets = << >>
  /\ pointerClient = NoClient
  /\ pointerClientAge = GrabSeconds
  /\ clipboardClient = NoClient
  /\ clipboardRequestors = << >>
  /\ desktopStarted = FALSE
  /\ blockCounter = 0
  /\ pb = NoPb
  /\ comparer = "null"
  /\ screenLayout = {}
  /\ renderedCursorInvalid = FALSE
  /\ ledState = LedUnknown
  /\ msc = 0
  /\ queuedMsc = 0
  /\ frameTimer = FALSE
  /\ idleTimer = (cfg.maxIdleTime # 0)
  /\ disconnectTimer = (cfg.maxDisconnectionTime # 0)
  /\ connectTimer = FALSE
  /\ authenticated = {}
  /\ core = FALSE
  /\ sdPb = NoPb
  /\ sdLedState = 0
  /\ fault = "none"
  /\ added = {}
  /\ lastOp = [op |-> "VNCServerST", sock |-> NoClient, result |-> "ok"]
  /\ calls = << [to |-> "desktop", c |-> NoClient, m |-> "init", arg |-> 0] >>

\* Every operation runs in a live process and leaves the embedder's
\* record of its sockets alone, except addSocket and removeSocket.
Op(op, sock, r) ==
  /\ fault = "none"
  /\ Commit(op, sock, r)
  /\ added' = added

\* -------------------------------------------- frame clock operations
\* blockUpdates()
BlockUpdatesBody(s) == StopFrameClock([s EXCEPT !.blockCounter = @ + 1])

BlockUpdates ==
  /\ blockCounter < MaxBlock
  /\ Op("blockUpdates", NoClient, BlockUpdatesBody(Cur))

\* unblockUpdates() as it would be without its call of startFrameClock().
UnblockUpdatesNoRestart(s) == [s EXCEPT !.blockCounter = @ - 1]

\* unblockUpdates(); assert(blockCounter > 0) is the caller's obligation.
UnblockUpdatesBody(s) ==
  IF s.blockCounter - 1 = 0
  THEN StartFrameClock([s EXCEPT !.blockCounter = @ - 1])
  ELSE [s EXCEPT !.blockCounter = @ - 1]

UnblockUpdates ==
  /\ blockCounter > 0
  /\ Op("unblockUpdates", NoClient, UnblockUpdatesBody(Cur))

\* queueMsc(target)
QueueMscBody(s, target) ==
  StartFrameClock([s EXCEPT !.queuedMsc = IF target > @ THEN target ELSE @])

QueueMsc(target) == Op("queueMsc", NoClient, QueueMscBody(Cur, target))

\* add_changed(region)
Add_changed(nonEmpty) ==
  Op("add_changed", NoClient, AddToComparer(Cur, nonEmpty))

\* add_copied(dest, delta)
Add_copied(nonEmpty) ==
  Op("add_copied", NoClient, AddToComparer(Cur, nonEmpty))

\* handleTimeout(&frameTimer): the expired timer is no longer pending when
\* its handler runs; repeat() makes it pending again.
FrameEnd(s2) ==
  IF ~Ok(s2) THEN s2
  ELSE CallA([s2 EXCEPT !.msc = @ + 1],
             "desktop", NoClient, "frameTick", s2.msc + 1)

\* The frame tick as it would be with msc++ ahead of the early return.
FrameTimeoutCountFirst(s, env) ==
  IF NothingPending(s) /\ s.queuedMsc < s.msc
  THEN [s EXCEPT !.frameTimer = FALSE, !.msc = @ + 1]
  ELSE IF s.desktopStarted /\ s.comparer = "dirty"
  THEN FrameEnd(WriteUpdate([s EXCEPT !.frameTimer = TRUE], env))
  ELSE FrameEnd([s EXCEPT !.frameTimer = TRUE])

\* The frame tick as it would be with "queuedMsc + 1 < msc" as its test.
FrameTimeoutOffByOne(s, env) ==
  IF NothingPending(s) /\ s.queuedMsc + 1 < s.msc
  THEN [s EXCEPT !.frameTimer = FALSE]
  ELSE IF s.desktopStarted /\ s.comparer = "dirty"
  THEN FrameEnd(WriteUpdate([s EXCEPT !.frameTimer = TRUE], env))
  ELSE FrameEnd([s EXCEPT !.frameTimer = TRUE])

\* The frame tick as it would be with the timer re-armed ahead of the
\* early return.
FrameTimeoutRearmFirst(s, env) ==
  IF NothingPending(s) /\ s.queuedMsc < s.msc
  THEN [s EXCEPT !.frameTimer = TRUE]
  ELSE IF s.desktopStarted /\ s.comparer = "dirty"
  THEN FrameEnd(WriteUpdate([s EXCEPT !.frameTimer = TRUE], env))
  ELSE FrameEnd([s EXCEPT !.frameTimer = TRUE])

FrameTimeout(s, env) ==
  IF NothingPending(s) /\ s.queuedMsc < s.msc
  THEN [s EXCEPT !.frameTimer = FALSE]
  ELSE IF s.desktopStarted /\ s.comparer = "dirty"
  THEN FrameEnd(WriteUpdate([s EXCEPT !.frameTimer = TRUE], env))
  ELSE FrameEnd([s EXCEPT !.frameTimer = TRUE])

FrameTick(env) ==
  /\ frameTimer
  /\ (NothingPending(Cur) /\ queuedMsc < msc) \/ msc < MaxMsc
  /\ Op("frameTick", NoClient, FrameTimeout(Cur, env))

\* ------------------------------------- framebuffer and screen layout
\* setPixelBuffer(pb_, layout)
SetPixelBufferLayout(p, layout) ==
  Op("setPixelBuffer2", NoClient, SetPixelBuffer2(Cur, p, layout))

\* setPixelBuffer(pb_)
SetPixelBuffer(p) ==
  Op("setPixelBuffer", NoClient, SetPixelBuffer1(Cur, p))

\* setScreenLayout(layout)
SetScreenLayoutBody(s, layout) ==
  IF s.pb = NoPb THEN Throw(s, "logic_error")
  ELSE IF ~Validate(layout, s.pb.w, s.pb.h) THEN Throw(s, "invalid_argument")
  ELSE CallEach([s EXCEPT !.screenLayout = layout], s.clients,
                "screenLayoutChangeOrClose")

SetScreenLayout(layout) ==
  Op("setScreenLayout", NoClient, SetScreenLayoutBody(Cur, layout))

\* ------------------------------------------------ clipboard, pointer
\* requestClipboard()
RequestClipboardBody(s) ==
  IF ~cfg.acceptCutText THEN s
  ELSE IF s.clipboardClient = NoClient THEN s
  ELSE Call(s, "client", s.clipboardClient, "requestClipboardOrClose")

\* sendClipboardData(data); hasCR: data holds a carriage return
SendClipboardDataBody(s, hasCR) ==
  IF ~cfg.sendCutText THEN s
  ELSE IF hasCR THEN Throw(s, "invalid_argument")
  ELSE [CallEach(s, s.clipboardRequestors, "sendClipboardDataOrClose")
          EXCEPT !.clipboardRequestors = << >>]

\* announceClipboard(available)
AnnounceClipboardBody(s, available) ==
  LET s1 == [s EXCEPT !.clipboardRequestors = << >>]
  IN  IF ~cfg.sendCutText THEN s1
      ELSE CallEachA(s1, s1.clients, "announceClipboardOrClose",
                     IF available THEN 1 ELSE 0)

\* SDisplay::handleClipboardAnnounce(available)
SD_handleClipboardAnnounce(s, available) ==
  IF available THEN RequestClipboardBody(s) ELSE s

\* SDisplay::handleClipboardRequest(); env.clipCR: the clipboard text holds
\* a carriage return
SD_handleClipboardRequest(s, env) == SendClipboardDataBody(s, env.clipCR)

\* The announce as it would be if any client could withdraw the clipboard.
HandleClipboardAnnounceAnyClears(s, c, available) ==
  IF available /\ ~cfg.acceptCutText THEN s
  ELSE SD_handleClipboardAnnounce(
         CallA([s EXCEPT !.clipboardClient =
                           IF available THEN c ELSE NoClient],
               "desktop", NoClient, "handleClipboardAnnounce",
               IF available THEN 1 ELSE 0),
         available)

\* handleClipboardAnnounce(client, available)
HandleClipboardAnnounceBody(s, c, available) ==
  IF available /\ ~cfg.acceptCutText THEN s
  ELSE IF ~available /\ c # s.clipboardClient THEN s
  ELSE SD_handleClipboardAnnounce(
         CallA([s EXCEPT !.clipboardClient =
                           IF available THEN c ELSE NoClient],
               "desktop", NoClient, "handleClipboardAnnounce",
               IF available THEN 1 ELSE 0),
         available)

\* handleClipboardRequest(client)
HandleClipboardRequestBody(s, c, env) ==
  LET s1 == [s EXCEPT !.clipboardRequestors = Append(@, c)]
  IN  IF Len(s1.clipboardRequestors) = 1
      THEN SD_handleClipboardRequest(
             Call(s1, "desktop", NoClient, "handleClipboardRequest"), env)
      ELSE s1

\* if (maxIdleTime) idleTimer.start(...): the idle period begins anew.
StartIdleTimer(s) ==
  IF cfg.maxIdleTime # 0
  THEN Call([s EXCEPT !.idleTimer = TRUE], "idleTimer", NoClient, "start")
  ELSE s

\* SDisplay::keyEvent(keysym, keycode, down)
SD_keyEvent(s, env) == IF env.restart THEN SD_restartCore(s, env) ELSE s

\* keyEvent(keysym, keycode, down)
KeyEventBody(s, env) ==
  IF ~cfg.acceptKeyEvents THEN s
  ELSE SD_keyEvent(
         Call(StartIdleTimer(s), "desktop", NoClient, "keyEvent"), env)

\* The arbitration as it would be if the grab never ran out.
PointerEventBodyNoExpiry(s, c, mask, env) ==
  IF s.pointerClient # NoClient /\ s.pointerClient # c THEN s
  ELSE SD_pointerEvent(
         CallA([s EXCEPT !.pointerClientAge = 0,
                         !.pointerClient = IF mask # 0 THEN c ELSE NoClient],
               "desktop", NoClient, "pointerEvent", mask),
         env)

\* pointerEvent(client, pos, buttonMask); pointerClientAge is
\* now - pointerClientTime, counted up to GrabSeconds.
PointerEventBody(s, c, mask, env) ==
  IF ~cfg.acceptPointerEvents THEN s
  ELSE LET s1 == StartIdleTimer(s)
       IN  IF s1.pointerClient # NoClient /\ s1.pointerClient # c
              /\ s1.pointerClientAge < GrabSeconds
           THEN s1
           ELSE SD_pointerEvent(
                  CallA([s1 EXCEPT !.pointerClientAge = 0,
                                   !.pointerClient =
                                      IF mask # 0 THEN c ELSE NoClient],
                        "desktop", NoClient, "pointerEvent", mask),
                  env)

\* ---------------------------------------------------- setDesktopSize
\* desktop->setScreenLayout(w, h, layout) of an arbitrary backend: it
\* answers with a result code and may, before it returns, install the
\* layout in the coordinator through setScreenLayout(layout) or through
\* setPixelBuffer(pb, layout) with a new w x h buffer.
Answers == {"success", "prohibited", "invalid", "outofresources"}
Installs == {"none", "setScreenLayout", "setPixelBuffer"}
Desktop_setScreenLayout(s, w, h, layout, install) ==
  IF install = "setScreenLayout" THEN SetScreenLayoutBody(s, layout)
  ELSE IF install = "setPixelBuffer"
  THEN SetPixelBuffer2(s, [w |-> w, h |-> h], layout)
  ELSE s

Return(s, code) == [s EXCEPT !.result = code]

\* "Notify other clients" as it would be without skipping the requester.
SetDesktopSizeTailNotifyAll(s1, requester, layout, answer) ==
  IF ~Ok(s1) THEN s1
  ELSE IF answer # "success" THEN Return(s1, answer)
  ELSE IF s1.screenLayout # layout THEN Throw(s1, "runtime_error")
  ELSE Return(CallEachA(s1, s1.clients,
                        "screenLayoutChangeOrClose", ReasonOtherClient),
              "success")

\* setDesktopSize once the backend has returned.
SetDesktopSizeTail(s1, requester, layout, answer) ==
  IF ~Ok(s1) THEN s1
  ELSE IF answer # "success" THEN Return(s1, answer)
  ELSE IF s1.screenLayout # layout THEN Throw(s1, "runtime_error")
  ELSE Return(CallEachA(s1, Remove(s1.clients, requester),
                        "screenLayoutChangeOrClose", ReasonOtherClient),
              "success")

\* setDesktopSize(requester, fb_width, fb_height, layout)
SetDesktopSizeBody(s, requester, w, h, layout, answer, install) ==
  IF ~cfg.acceptSetDesktopSize THEN Return(s, "prohibited")
  ELSE IF w > MaxFbSize \/ h > MaxFbSize THEN Return(s, "prohibited")
  ELSE IF ~Validate(layout, w, h) THEN Return(s, "invalid")
  ELSE SetDesktopSizeTail(
         Desktop_setScreenLayout(
           Call(s, "desktop", NoClient, "setScreenLayout"),
           w, h, layout, install),
         requester, layout, answer)

\* ------------------------------------------------------- the sockets
\* addSocket(sock, outgoing, accessRights); outcome: the peer is
\* "blacklisted", the VNCSConnectionST constructor throws ("ctor"), its
\* init() throws ("init"), or the connection is "accepted".
\* The reject banner's literals as character codes.
VersionLine == << 82, 70, 66, 32, 48, 48, 51, 46, 48, 48, 51, 10 >>
Reason ==
  << 84, 111, 111, 32, 109, 97, 110, 121, 32,
     115, 101, 99, 117, 114, 105, 116, 121, 32,
     102, 97, 105, 108, 117, 114, 101, 115 >>

\* rdr::OutStream: writeBytes copies the first n bytes, writeU32 writes
\* the value most significant byte first.
WriteBytes(data, n) == SubSeq(data, 1, n)
WriteU32LittleEndian(u) ==
  << u % 256, (u \div 256) % 256, (u \div 65536) % 256,
     (u \div 16777216) % 256 >>
WriteU32(u) ==
  << (u \div 16777216) % 256, (u \div 65536) % 256, (u \div 256) % 256,
     u % 256 >>

\* The bytes the stream holds when flush() is reached.
Banner ==
  WriteBytes(VersionLine, 12) \o WriteU32(0) \o WriteU32(Len(Reason))
    \o WriteBytes(Reason, Len(Reason))

\* The try block of addSocket's blacklist branch: the banner reaches the
\* socket when flush() returns ("blacklisted"); the stream throws before
\* anything is sent ("banner_unwritten") or while flushing, after part of
\* it was sent ("banner_unflushed").  The catch clause is empty.
BlacklistOutcomes == {"blacklisted", "banner_unwritten", "banner_unflushed"}
WriteBanner(s, sock, outcome) ==
  IF outcome = "banner_unwritten" THEN s
  ELSE CallA(s, "socket", sock, "write",
             IF outcome = "blacklisted" THEN Banner
             ELSE WriteBytes(Banner, 12))

RejectSocketKeepOpen(s, sock) ==
  [s EXCEPT !.closingSockets = Append(@, sock)]
RejectSocket(s, sock) ==
  [Call(s, "socket", sock, "shutdown")
     EXCEPT !.closingSockets = Append(@, sock)]

AddSocketBody(s, sock, outcome) ==
  IF outcome \in BlacklistOutcomes
  THEN RejectSocket(WriteBanner(s, sock, outcome), sock)
  ELSE LET s1 == [s EXCEPT
                    !.connectTimer =
                       IF cfg.maxConnectionTime # 0 /\ s.clients = << >>
                       THEN TRUE ELSE @,
                    !.disconnectTimer = FALSE]
           s2 == IF outcome = "ctor" THEN s1
                 ELSE Call([s1 EXCEPT !.clients = << sock >> \o @],
                           "client", sock, "init")
       IN  IF outcome = "accepted" THEN s2
           ELSE [Call(s2, "socket", sock, "shutdown")
                   EXCEPT !.closingSockets = Append(@, sock)]

\* removeSocket(sock)
\* "Adjust the exit timers"
RemoveSocketTimers(s5) ==
  IF ~Ok(s5) THEN s5
  ELSE [s5 EXCEPT
          !.connectTimer = FALSE,
          !.disconnectTimer =
             IF cfg.maxDisconnectionTime # 0 /\ s5.clients = << >>
             THEN TRUE ELSE @]

\* "Check that the desktop object is still required"
RemoveSocketDesktop(s4) ==
  RemoveSocketTimers(IF AuthClientCount(s4) = 0 THEN StopDesktop(s4) ELSE s4)

\* The deletion as it would be without clipboardRequestors.remove(*ci).
RemoveSocketDeleteKeepRequestors(s3, sock) ==
  IF ~Ok(s3) THEN s3
  ELSE RemoveSocketDesktop(
         Call([s3 EXCEPT !.clients = Remove(@, sock),
                         !.authenticated = @ \ {sock}],
              "client", sock, "delete"))

\* "Delete the per-Socket resources"
RemoveSocketDelete(s3, sock) ==
  IF ~Ok(s3) THEN s3
  ELSE RemoveSocketDesktop(
         Call([s3 EXCEPT !.clipboardRequestors = Remove(@, sock),
                         !.clients = Remove(@, sock),
                         !.authenticated = @ \ {sock}],
              "client", sock, "delete"))

RemoveSocketClipboard(s2, sock) ==
  IF ~Ok(s2) THEN s2
  ELSE IF s2.clipboardClient = sock
  THEN RemoveSocketDelete(HandleClipboardAnnounceBody(s2, sock, FALSE), sock)
  ELSE RemoveSocketDelete(s2, sock)

\* The release as it would be without pointerClient = nullptr.
RemoveSocketPointerKept(s1, sock) ==
  IF ~Ok(s1) THEN s1 ELSE RemoveSocketClipboard(s1, sock)

\* pointerClient = nullptr once desktop->pointerEvent has returned.
RemoveSocketPointer(s1, sock) ==
  IF ~Ok(s1) THEN s1
  ELSE RemoveSocketClipboard([s1 EXCEPT !.pointerClient = NoClient], sock)

RemoveSocketBody(s, sock, env) ==
  IF InSeq(s.clients, sock)
  THEN IF s.pointerClient = sock
       THEN RemoveSocketPointer(
              SD_pointerEvent(
                CallA(s, "desktop", NoClient, "pointerEvent", 0), env), sock)
       ELSE RemoveSocketClipboard(s, sock)
  ELSE [s EXCEPT !.closingSockets = Remove(@, sock)]

\* getSockets(sockets)
GetSockets == clients \o closingSockets

AddSocket(sock, outcome) ==
  /\ fault = "none"
  /\ sock \notin added
  /\ outcome = "accepted" \/ Len(closingSockets) < MaxClosing
  /\ Commit("addSocket", sock, AddSocketBody(Cur, sock, outcome))
  /\ added' = added \cup {sock}

RemoveSocket(sock, env) ==
  /\ fault = "none"
  /\ Commit("removeSocket", sock, RemoveSocketBody(Cur, sock, env))
  /\ added' = added \ {sock}

\* processSocketReadEvent(sock), processSocketWriteEvent(sock); what
\* processMessages goes on to ask of the server are the operations below.
\* The lookup as it would be over every socket getSockets() lists.
ProcessSocketEventAnyListed(s, sock, m) ==
  IF InSeq(s.clients \o s.closingSockets, sock)
  THEN Call(s, "client", sock, m)
  ELSE Throw(s, "invalid_argument")

ProcessSocketEventBody(s, sock, m) ==
  IF InSeq(s.clients, sock) THEN Call(s, "client", sock, m)
  ELSE Throw(s, "invalid_argument")

ProcessSocketReadEvent(sock) ==
  Op("processSocketReadEvent", sock,
     ProcessSocketEventBody(Cur, sock, "processMessages"))

ProcessSocketWriteEvent(sock) ==
  Op("processSocketWriteEvent", sock,
     ProcessSocketEventBody(Cur, sock, "flushSocket"))

\* ------------------------------------- operations a connection asks for
\* approveConnection(sock, accept, reason); an approved connection counts
\* as authenticated from then on.
ApproveConnectionBody(s, sock, accept) ==
  IF InSeq(s.clients, sock)
  THEN CallA([s EXCEPT !.authenticated =
                         IF accept THEN @ \cup {sock} ELSE @],
             "client", sock, "approveConnectionOrClose",
             IF accept THEN 1 ELSE 0)
  ELSE s

\* SDisplay::queryConnection(sock, userName); env.handler: a
\* queryConnectionHandler is installed and will answer later.
SD_queryConnection(s, sock, env) ==
  IF env.handler THEN s ELSE ApproveConnectionBody(s, sock, TRUE)

\* The decisions as they would be with the query tested ahead of the
\* "already in use" case.
QueryConnectionDecideQueryFirst(s1, c, env) ==
  IF ~Ok(s1) THEN s1
  ELSE IF ~cfg.queryConnect /\ ~env.requiresQuery
  THEN ApproveConnectionBody(s1, c, TRUE)
  ELSE IF cfg.neverShared /\ ~cfg.disconnectClients
          /\ AuthClientCount(s1) > 0
  THEN ApproveConnectionBody(s1, c, FALSE)
  ELSE IF env.noQuery
  THEN ApproveConnectionBody(s1, c, TRUE)
  ELSE SD_queryConnection(
         Call(s1, "desktop", c, "queryConnection"), c, env)

\* queryConnection(client, userName); env.requiresQuery and env.noQuery:
\* sock->requiresQuery() and client->accessCheck(AccessNoQuery).
QueryConnectionDecide(s1, c, env) ==
  IF ~Ok(s1) THEN s1
  ELSE IF cfg.neverShared /\ ~cfg.disconnectClients
          /\ AuthClientCount(s1) > 0
  THEN ApproveConnectionBody(s1, c, FALSE)
  ELSE IF ~cfg.queryConnect /\ ~env.requiresQuery
  THEN ApproveConnectionBody(s1, c, TRUE)
  ELSE IF env.noQuery
  THEN ApproveConnectionBody(s1, c, TRUE)
  ELSE SD_queryConnection(
         Call(s1, "desktop", c, "queryConnection"), c, env)

QueryConnectionBody(s, c, env) ==
  QueryConnectionDecide(
    StartDesktop(Call(s, "blHosts", c, "clearBlackmark"), env), c, env)

\* clientReady as it would be with "authClientCount() > 0" as its test.
ClientReadyBodyCountSelf(s, c, shared, env) ==
  IF shared THEN s
  ELSE IF cfg.disconnectClients /\ env.nonShared THEN CloseClients(s, c)
  ELSE IF AuthClientCount(s) > 0 THEN Call(s, "client", c, "close")
  ELSE s

\* clientReady(client, shared); env.nonShared:
\* client->accessCheck(AccessNonShared)
ClientReadyBody(s, c, shared, env) ==
  IF shared THEN s
  ELSE IF cfg.disconnectClients /\ env.nonShared THEN CloseClients(s, c)
  ELSE IF AuthClientCount(s) > 1 THEN Call(s, "client", c, "close")
  ELSE s

\* A connection asks once it has authenticated its peer.
QueryConnection(c, env) ==
  /\ InSeq(clients, c) /\ c \notin authenticated
  /\ Op("queryConnection", c, QueryConnectionBody(Cur, c, env))

\* The operations below come from an authenticated connection.
ClientReady(c, shared, env) ==
  /\ InSeq(clients, c) /\ c \in authenticated
  /\ Op("clientReady", c, ClientReadyBody(Cur, c, shared, env))

PointerEvent(c, mask, env) ==
  /\ InSeq(clients, c) /\ c \in authenticated
  /\ Op("pointerEvent", c, PointerEventBody(Cur, c, mask, env))

KeyEvent(c, env) ==
  /\ InSeq(clients, c) /\ c \in authenticated
  /\ Op("keyEvent", c, KeyEventBody(Cur, env))

HandleClipboardRequest(c, env) ==
  /\ InSeq(clients, c) /\ c \in authenticated
  /\ Len(clipboardRequestors) < MaxRequestors
  /\ Op("handleClipboardRequest", c, HandleClipboardRequestBody(Cur, c, env))

SetDesktopSize(c, size, layout, answer, install) ==
  /\ InSeq(clients, c) /\ c \in authenticated
  /\ Op("setDesktopSize", c,
        SetDesktopSizeBody(Cur, c, size.w, size.h, layout, answer, install))

\* The backend reports a keyboard LED state.
Desktop_setLEDState(state) ==
  Op("setLEDState", NoClient, SetLEDState(Cur, state))

HandleClipboardAnnounce(c, available) ==
  /\ InSeq(clients, c) /\ c \in authenticated
  /\ Op("handleClipboardAnnounce", c,
        HandleClipboardAnnounceBody(Cur, c, available))

\* ---------------------------------------- operations the backend asks for
SendClipboardData(hasCR) ==
  Op("sendClipboardData", NoClient, SendClipboardDataBody(Cur, hasCR))

AnnounceClipboard(available) ==
  Op("announceClipboard", NoClient, AnnounceClipboardBody(Cur, available))

CloseAllClients ==
  Op("closeClients", NoClient, CloseClients(Cur, NoClient))

\* Ten seconds pass without an accepted pointer event.
TimePasses(d) ==
  /\ pointerClientAge < GrabSeconds
  /\ Op("time", NoClient,
        [Cur EXCEPT !.pointerClientAge = Min(@ + d, GrabSeconds)])

\* SDisplay::notifyDisplayEvent(evt): the display's size or format changed
\* to that of newPb; recreatePixelBuffer() returns early when nothing has
\* changed.
SD_notifyDisplayEvent(s, newPb) ==
  IF s.sdPb # NoPb /\ newPb = s.sdPb THEN s
  ELSE SD_recreatePixelBuffer(s, newPb)

NotifyDisplayEvent(newPb) ==
  /\ core
  /\ Op("notifyDisplayEvent", NoClient, SD_notifyDisplayEvent(Cur, newPb))

\* ------------------------------------------------- what the
\* environment does during an operation
QuietEnv ==
  [ start |-> "ok", pb |-> [w |-> 2, h |-> 1], led |-> 0,
    cursorHit |-> FALSE, ndebug |-> FALSE, inside |-> TRUE,
    restart |-> FALSE, clipCR |-> FALSE, handler |-> FALSE,
    requiresQuery |-> FALSE, noQuery |-> FALSE, nonShared |-> TRUE ]

\* ------------------------------------------------ the frame clock:
\* one connection, the backend blocking, queueing and reporting changes
FrameEnvs ==
  { [QuietEnv EXCEPT !.start = st, !.ndebug = nd] :
      st \in {"ok", "early", "late"}, nd \in BOOLEAN }

InitDefault == InitWith({DefaultConfig})

NextFrame ==
  \/ BlockUpdates
  \/ UnblockUpdates
  \/ \E t \in 0..MaxMsc : QueueMsc(t)
  \/ \E b \in BOOLEAN : Add_changed(b)
  \/ \E b \in BOOLEAN : Add_copied(b)
  \/ FrameTick(QuietEnv)
  \/ \E p \in {NoPb, [w |-> 2, h |-> 1]},
        l \in {{Screen(0, 0, 0, 1, 1)}, {Screen(0, 0, 0, 3, 1)}} :
       SetPixelBufferLayout(p, l)
  \/ NotifyDisplayEvent([w |-> 1, h |-> 1])
  \/ \E c \in FrameSockets : AddSocket(c, "accepted")
  \/ \E c \in FrameSockets, e \in FrameEnvs : QueryConnection(c, e)
  \/ \E c \in FrameSockets : RemoveSocket(c, QuietEnv)

SpecFrame == InitDefault /\ [][NextFrame]_vars

\* The frame tick about to run returns early: nothing is pending and no
\* queued frame count is waited for.
TickReturnsEarly == NothingPending(Cur) /\ queuedMsc < msc

\* C7: in every reachable state blockCounter is at least 0, and the frame
\* timer is not running whenever blockCounter is above 0.
C7_BlockedClockStopped ==
  /\ blockCounter >= 0
  /\ blockCounter > 0 => ~frameTimer

\* queueMsc asked, while blocked, for a frame that is still to come.
C7_QueuedWhileBlocked ==
  /\ lastOp.op = "queueMsc"
  /\ blockCounter > 0
  /\ queuedMsc > msc
  /\ ~frameTimer

\* C8 as stated: msc and queuedMsc never decrease, every frame tick
\* increments msc by exactly 1, and no other operation changes msc.
C8_EveryTickCounts ==
  [][ /\ msc' >= msc
      /\ queuedMsc' >= queuedMsc
      /\ lastOp'.op = "frameTick" => msc' = msc + 1
      /\ lastOp'.op # "frameTick" => msc' = msc ]_vars

\* C8: msc and queuedMsc never decrease; a frame tick that returns early
\* (nothing pending and queuedMsc < msc) leaves msc unchanged and every
\* other frame tick increments msc by exactly 1; no other operation
\* changes msc.
C8_TickCountsUnlessIdle ==
  [][ /\ msc' >= msc
      /\ queuedMsc' >= queuedMsc
      /\ lastOp'.op = "frameTick" /\ fault' = "none" =>
            msc' = IF TickReturnsEarly THEN msc ELSE msc + 1
      /\ lastOp'.op # "frameTick" => msc' = msc ]_vars

\* A frame tick has just returned early: the timer was not re-armed.
C8_IdleTickSeen ==
  /\ lastOp.op = "frameTick"
  /\ ~frameTimer
  /\ msc > queuedMsc

\* C9 as stated: in every reachable state msc <= queuedMsc + 1.
C9_MscWithinOneOfQueued == msc <= queuedMsc + 1

\* C9: a frame tick that finds nothing pending (desktop not started, or
\* comparer empty) advances msc only while msc <= queuedMsc, so that after
\* such an advance msc <= queuedMsc + 1.
C9_IdleTickWithinOneOfQueued ==
  [][ lastOp'.op = "frameTick" /\ NothingPending(Cur) /\ msc' # msc =>
        msc' <= queuedMsc' + 1 ]_vars

\* An idle tick has advanced msc to queuedMsc + 1.
C9_IdleTickAdvanced ==
  /\ lastOp.op = "frameTick"
  /\ ~desktopStarted
  /\ frameTimer
  /\ msc = queuedMsc + 1

\* C10 as stated: after every public operation, the frame timer is running
\* if and only if blockCounter = 0 and (the desktop is not started, or the
\* comparer is non-empty, or queuedMsc > msc).
C10_ClockRunsIff ==
  lastOp.op # "VNCServerST" =>
    (frameTimer <=>
       /\ blockCounter = 0
       /\ ~desktopStarted \/ comparer = "dirty" \/ queuedMsc > msc)

\* C10: the frame timer runs only while blockCounter = 0, and it does run
\* whenever blockCounter = 0 and there is something to emit: the desktop is
\* started and the comparer is non-empty, or queuedMsc > msc.
C10_ClockRunsWhenNeeded ==
  /\ frameTimer => blockCounter = 0
  /\ ( /\ blockCounter = 0
       /\ (desktopStarted /\ comparer = "dirty") \/ queuedMsc > msc )
     => frameTimer

\* A change was reported to a started desktop with an idle frame clock.
C10_ChangeStartsClock ==
  /\ lastOp.op = "add_changed"
  /\ desktopStarted
  /\ comparer = "dirty"
  /\ queuedMsc < msc
  /\ blockCounter = 0
  /\ frameTimer

\* n calls of blockUpdates, n calls of unblockUpdates.
RECURSIVE BlockN(_, _)
BlockN(s, n) == IF n = 0 THEN s ELSE BlockN(BlockUpdatesBody(s), n - 1)

RECURSIVE UnblockN(_, _)
UnblockN(s, n) == IF n = 0 THEN s ELSE UnblockN(UnblockUpdatesBody(s), n - 1)

\* The work the backend may do in between: add_changed, add_copied and
\* queueMsc calls, at most MaxWork of them.
WorkItems ==
  {[m |-> "add_changed", arg |-> 0], [m |-> "add_copied", arg |-> 0]}
    \cup {[m |-> "queueMsc", arg |-> t] : t \in 0..MaxMsc}

WorkSeqs == UNION {[1..k -> WorkItems] : k \in 0..MaxWork}

DoWork(s, item) ==
  IF item.m = "queueMsc" THEN QueueMscBody(s, item.arg)
  ELSE AddToComparer(s, TRUE)

RECURSIVE ApplyWork(_, _)
ApplyWork(s, w) ==
  IF w = << >> THEN s ELSE ApplyWork(DoWork(s, Head(w)), Tail(w))

\* The coordinator after n blockUpdates, the work w and k unblockUpdates.
Bracketed(n, w, k) == UnblockN(ApplyWork(BlockN(Cur, n), w), k)

\* Blocking around the backend's work: one connection starting and
\* stopping the desktop, the backend blocking, working and queueing.
NextBlock ==
  \/ BlockUpdates
  \/ UnblockUpdates
  \/ \E t \in 0..MaxMsc : QueueMsc(t)
  \/ Add_changed(TRUE)
  \/ FrameTick(QuietEnv)
  \/ \E c \in FrameSockets : AddSocket(c, "accepted")
  \/ \E c \in FrameSockets : QueryConnection(c, QuietEnv)
  \/ \E c \in FrameSockets : RemoveSocket(c, QuietEnv)

SpecBlock == InitDefault /\ [][NextBlock]_vars

\* a: the coordinator after the bracketed work, b: after the work alone.
SameClock(a, b) ==
  a.blockCounter = blockCounter /\ a.frameTimer = b.frameTimer

RearmedIfWorkRemains(a, b) ==
  /\ a.blockCounter = blockCounter
  /\ a.comparer = b.comparer
  /\ a.queuedMsc = b.queuedMsc
  /\ a.frameTimer =
       (blockCounter = 0 /\ ~(NothingPending(b) /\ b.queuedMsc < msc))

\* C11 as stated: n blockUpdates, some work and n unblockUpdates return
\* blockCounter to its value and leave the frame clock running or stopped
\* as the same work alone would have left it.
C11_BlockingRestoresClock ==
  \A n \in 1..MaxBlock, w \in WorkSeqs :
    SameClock(Bracketed(n, w, n), ApplyWork(Cur, w))

\* C11: n blockUpdates, some work and n unblockUpdates return blockCounter
\* to its value and leave comparer and queuedMsc as the same work alone
\* would have; the frame clock stays stopped until the unblockUpdates that
\* brings blockCounter to 0, and after it the clock is running exactly if
\* something is pending or queuedMsc >= msc, whether or not it was running
\* before.
C11_BlockingRearmsIfWorkRemains ==
  \A n \in 1..MaxBlock, w \in WorkSeqs :
    /\ RearmedIfWorkRemains(Bracketed(n, w, n), ApplyWork(Cur, w))
    /\ \A k \in 0..(n - 1) : ~Bracketed(n, w, k).frameTimer

\* unblockUpdates has brought blockCounter to 0 and left the clock of a
\* started desktop stopped.
C11_UnblockedIdle ==
  /\ lastOp.op = "unblockUpdates"
  /\ blockCounter = 0
  /\ desktopStarted
  /\ ~frameTimer

\* ------------------------------------------ the framebuffer: a backend
\* installing pixel buffers and layouts, one connection, the clipboard
FbSockets == {1}
FbEnvs == { [QuietEnv EXCEPT !.clipCR = cr] : cr \in BOOLEAN }

\* The coordinator's own fields.
CoordState ==
  << clients, closingSockets, pointerClient, pointerClientAge,
     clipboardClient, clipboardRequestors, desktopStarted, blockCounter,
     pb, comparer, screenLayout, renderedCursorInvalid, ledState,
     msc, queuedMsc, frameTimer, idleTimer, disconnectTimer, connectTimer >>

NextFb ==
  \/ \E p \in PixelBuffers \cup {NoPb}, l \in Layouts :
       SetPixelBufferLayout(p, l)
  \/ \E p \in PixelBuffers \cup {NoPb} : SetPixelBuffer(p)
  \/ \E l \in Layouts : SetScreenLayout(l)
  \/ \E b \in BOOLEAN : SendClipboardData(b)
  \/ \E c \in Sockets : ProcessSocketReadEvent(c)
  \/ \E c \in Sockets : ProcessSocketWriteEvent(c)
  \/ \E b \in BOOLEAN : Add_changed(b)
  \/ \E c \in FbSockets : AddSocket(c, "accepted")
  \/ \E c \in FbSockets : QueryConnection(c, QuietEnv)
  \/ \E c \in FbSockets, e \in FbEnvs : HandleClipboardRequest(c, e)
  \/ \E c \in FbSockets : RemoveSocket(c, QuietEnv)

SpecFb == InitDefault /\ [][NextFb]_vars

\* C5: after every public operation, whether it returned normally or with
\* a failure, comparer is non-null if and only if pb is non-null.
C5_ComparerIffPb == (comparer # "null") <=> (pb # NoPb)

\* setPixelBuffer(pb, layout) has failed on a layout that does not validate.
C5_LayoutRejected ==
  /\ lastOp.op = "setPixelBuffer2"
  /\ lastOp.result = "invalid_argument"
  /\ pb # NoPb

\* The operations C6 names.
ArgumentChecked ==
  { "setPixelBuffer2", "setScreenLayout", "sendClipboardData",
    "processSocketReadEvent", "processSocketWriteEvent" }

\* C6: an operation that fails with an invalid-argument fault leaves the
\* coordinator's state as it was before the call and notifies nobody.
C6_InvalidArgumentChangesNothing ==
  [][ lastOp'.op \in ArgumentChecked /\ lastOp'.result = "invalid_argument"
        => CoordState' = CoordState /\ calls' = << >> ]_vars

\* sendClipboardData has failed on a carriage return with requestors waiting.
C6_CarriageReturnRejected ==
  /\ lastOp.op = "sendClipboardData"
  /\ lastOp.result = "invalid_argument"
  /\ clipboardRequestors # << >>

\* ------------------------------------------------ the sockets: the
\* embedder adding and removing sockets, connections being closed
AddOutcomes == {"blacklisted", "ctor", "init", "accepted"}

NextSock ==
  \/ \E c \in Sockets, o \in AddOutcomes : AddSocket(c, o)
  \/ \E c \in Sockets : RemoveSocket(c, QuietEnv)
  \/ \E c \in Sockets : QueryConnection(c, QuietEnv)
  \/ \E c \in Sockets : ClientReady(c, FALSE, QuietEnv)
  \/ \E b \in BOOLEAN : AnnounceClipboard(b)
  \/ CloseAllClients
  \/ FrameTick(QuietEnv)

SpecSock == InitDefault /\ [][NextSock]_vars

\* C1: after every public operation, no socket is at once the socket of a
\* member of clients and an entry of closingSockets.
C1_ClosingDisjointFromClients ==
  SeqSet(clients) \cap SeqSet(closingSockets) = {}

\* addSocket has returned after the connection's init() failed.
C1_InitFailed ==
  /\ lastOp.op = "addSocket"
  /\ \E i \in 1..Len(calls) : calls[i].m = "init"
  /\ InSeq(closingSockets, lastOp.sock)

\* C2: after removeSocket(s) returns, s is not the socket of a member of
\* clients, not in closingSockets, its connection is not pointerClient,
\* not clipboardClient and not in clipboardRequestors, and getSockets does
\* not return s.
C2_NoReferenceAfterRemove ==
  lastOp.op = "removeSocket" /\ fault = "none" =>
    /\ ~InSeq(clients, lastOp.sock)
    /\ ~InSeq(closingSockets, lastOp.sock)
    /\ pointerClient # lastOp.sock
    /\ clipboardClient # lastOp.sock
    /\ ~InSeq(clipboardRequestors, lastOp.sock)
    /\ ~InSeq(GetSockets, lastOp.sock)

\* removeSocket has deleted the connection of a socket.
C2_ConnectionDeleted ==
  /\ lastOp.op = "removeSocket"
  /\ fault = "none"
  /\ \E i \in 1..Len(calls) : calls[i].m = "delete"

\* C3: from addSocket(s) until removeSocket(s), getSockets contains s, and
\* only addSocket and removeSocket change the membership of clients and
\* closingSockets.
C3_TwoPhaseTeardown ==
  /\ [](added \subseteq SeqSet(GetSockets))
  /\ [][ clients' # clients \/ closingSockets' # closingSockets
           => lastOp'.op \in {"addSocket", "removeSocket"} ]_vars

\* closeClients has closed a connection that getSockets still returns,
\* next to a socket that was rejected.
C3_ClosedButListed ==
  /\ lastOp.op = "closeClients"
  /\ \E i \in 1..Len(calls) : calls[i].m = "close"
  /\ clients # << >>
  /\ closingSockets # << >>
  /\ added = SeqSet(GetSockets)

\* ------------------------------------------- pointer and clipboard:
\* accepted connections pressing buttons, announcing and requesting the
\* clipboard, and going away
SockEnvs == { QuietEnv, [QuietEnv EXCEPT !.restart = TRUE, !.start = "late"] }

NextRefs ==
  \/ \E c \in Sockets : AddSocket(c, "accepted")
  \/ \E c \in Sockets, e \in SockEnvs : RemoveSocket(c, e)
  \/ \E c \in Sockets : QueryConnection(c, QuietEnv)
  \/ \E c \in Sockets, mask \in 0..1 : PointerEvent(c, mask, QuietEnv)
  \/ \E c \in Sockets, e \in FbEnvs : HandleClipboardRequest(c, e)
  \/ \E c \in Sockets, b \in BOOLEAN : HandleClipboardAnnounce(c, b)
  \/ SendClipboardData(FALSE)
  \/ \E b \in BOOLEAN : AnnounceClipboard(b)
  \/ TimePasses(GrabSeconds)

SpecRefs == InitDefault /\ [][NextRefs]_vars

\* C4: pointerClient and clipboardClient, when set, and every entry of
\* clipboardRequestors are members of clients.
C4_ReferencesAreClients ==
  /\ pointerClient # NoClient => InSeq(clients, pointerClient)
  /\ clipboardClient # NoClient => InSeq(clients, clipboardClient)
  /\ \A i \in 1..Len(clipboardRequestors) :
       InSeq(clients, clipboardRequestors[i])

\* removeSocket has released the pointer of the connection it deleted
\* while another connection stays.
C4_PointerReleased ==
  /\ lastOp.op = "removeSocket"
  /\ \E i \in 1..Len(calls) : calls[i].m = "pointerEvent"
  /\ \E i \in 1..Len(calls) : calls[i].m = "delete"
  /\ pointerClient = NoClient
  /\ clients # << >>

\* ------------------------------------------- rejecting a blacklisted peer
\* A run whose exit timers are configured, so that the constructor has
\* started disconnectTimer and an accepted socket would start connectTimer.
TimedConfig ==
  [DefaultConfig EXCEPT !.maxConnectionTime = 1, !.maxDisconnectionTime = 1]

NextAdmit ==
  \/ \E c \in Sockets, o \in AddOutcomes \cup BlacklistOutcomes :
       AddSocket(c, o)
  \/ \E c \in Sockets : RemoveSocket(c, QuietEnv)
  \/ \E c \in Sockets : QueryConnection(c, QuietEnv)
  \/ \E c \in Sockets : ProcessSocketReadEvent(c)
  \/ \E c \in Sockets : ProcessSocketWriteEvent(c)
  \/ CloseAllClients

SpecAdmit == InitWith({TimedConfig}) /\ [][NextAdmit]_vars

\* The 46 bytes of the reject banner: "RFB 003.003\n", 32-bit 0, 32-bit 26,
\* "Too many security failures".
ExpectedBanner ==
  << 82, 70, 66, 32, 48, 48, 51, 46, 48, 48, 51, 10,
     0, 0, 0, 0,
     0, 0, 0, 26,
     84, 111, 111, 32, 109, 97, 110, 121, 32,
     115, 101, 99, 117, 114, 105, 116, 121, 32,
     102, 97, 105, 108, 117, 114, 101, 115 >>

\* Every coordinator field but closingSockets.
BesidesClosing ==
  << clients, pointerClient, pointerClientAge,
     clipboardClient, clipboardRequestors, desktopStarted, blockCounter,
     pb, comparer, screenLayout, renderedCursorInvalid, ledState,
     msc, queuedMsc, frameTimer, idleTimer, disconnectTimer, connectTimer,
     authenticated >>

\* The socket was shut down and appended to closingSockets, the operation
\* returned normally and nothing else changed.
ShutDownAndEnqueued(c) ==
  /\ calls' # << >>
  /\ calls'[Len(calls')] = [to |-> "socket", c |-> c, m |-> "shutdown", arg |-> 0]
  /\ \A i \in 1..Len(calls') : calls'[i].to = "socket" /\ calls'[i].c = c
  /\ closingSockets' = Append(closingSockets, c)
  /\ lastOp'.result = "ok"
  /\ UNCHANGED BesidesClosing

\* C12: addSocket for a blackmarked peer writes exactly the reject banner
\* (12 bytes "RFB 003.003\n", 32-bit 0, 32-bit 26, the 26 bytes of "Too
\* many security failures") to the socket, shuts the socket down, appends
\* it to closingSockets and changes nothing else: clients, connectTimer
\* and disconnectTimer stay as they were and no Connection is created.
\* When writing the banner fails the failure is swallowed and the socket
\* is still shut down and enqueued.
C12_BlacklistedPeerRejected ==
  [][\A c \in Sockets :
       /\ AddSocket(c, "blacklisted") =>
            /\ calls' = << [to |-> "socket", c |-> c, m |-> "write",
                            arg |-> ExpectedBanner],
                           [to |-> "socket", c |-> c, m |-> "shutdown",
                            arg |-> 0] >>
            /\ ShutDownAndEnqueued(c)
       /\ \A o \in BlacklistOutcomes :
            AddSocket(c, o) => ShutDownAndEnqueued(c)]_vars

\* A blackmarked peer was rejected while no client was connected and the
\* exit timers were configured: disconnectTimer still runs and
\* connectTimer was not started.
C12_BannerSent ==
  /\ lastOp.op = "addSocket"
  /\ Len(calls) = 2
  /\ calls[1].m = "write"
  /\ calls[1].arg = ExpectedBanner
  /\ calls[2].m = "shutdown"
  /\ lastOp.sock \in SeqSet(closingSockets)
  /\ clients = << >>
  /\ cfg.maxConnectionTime # 0
  /\ disconnectTimer
  /\ ~connectTimer

\* ------------------------------------ removing the pointer's connection
\* The positions in the calls of the last operation of the backend's
\* pointerEvent and of the destruction of connection c.
PointerCalls(cs) ==
  {i \in 1..Len(cs) : cs[i].to = "desktop" /\ cs[i].m = "pointerEvent"}
DeleteCalls(cs, c) ==
  {i \in 1..Len(cs) : cs[i].to = "client" /\ cs[i].c = c /\ cs[i].m = "delete"}

\* C13: removeSocket of the connection that is pointerClient makes the
\* backend receive exactly one pointerEvent with button mask 0 before the
\* Connection is destroyed and leaves pointerClient null; removeSocket of
\* any other socket sends the backend no pointer event and leaves
\* pointerClient unchanged.
C13_RemovalReleasesButtons ==
  [][lastOp'.op = "removeSocket" /\ fault' = "none" =>
       IF pointerClient = lastOp'.sock /\ InSeq(clients, lastOp'.sock)
       THEN /\ Cardinality(PointerCalls(calls')) = 1
            /\ \A i \in PointerCalls(calls') : calls'[i].arg = 0
            /\ Cardinality(DeleteCalls(calls', lastOp'.sock)) = 1
            /\ \A i \in PointerCalls(calls') :
                 \A j \in DeleteCalls(calls', lastOp'.sock) : i < j
            /\ pointerClient' = NoClient
       ELSE /\ PointerCalls(calls') = {}
            /\ pointerClient' = pointerClient]_vars

\* The connection holding the pointer was removed: its buttons were
\* released and then it was destroyed.
C13_ReleasedThenDeleted ==
  /\ lastOp.op = "removeSocket"
  /\ PointerCalls(calls) # {}
  /\ DeleteCalls(calls, lastOp.sock) # {}
  /\ pointerClient = NoClient
  /\ fault = "none"

\* A connection other than the one holding the pointer was removed.
C13_OtherRemoved ==
  /\ lastOp.op = "removeSocket"
  /\ DeleteCalls(calls, lastOp.sock) # {}
  /\ pointerClient # NoClient

\* ------------------------------------------------- pointer arbitration
\* The seconds that pass between two operations: just short of the grab
\* window, or all of it.
Elapsed == {GrabSeconds - 1, GrabSeconds}

NextPointer ==
  \/ \E c \in Sockets : AddSocket(c, "accepted")
  \/ \E c \in Sockets : QueryConnection(c, QuietEnv)
  \/ \E c \in Sockets, e \in SockEnvs : RemoveSocket(c, e)
  \/ \E c \in Sockets, mask \in 0..1, e \in SockEnvs : PointerEvent(c, mask, e)
  \/ \E d \in Elapsed : TimePasses(d)

SpecPointer == InitDefault /\ [][NextPointer]_vars

\* Another client holds the pointer and its last accepted event is less
\* than ten seconds old.
Grabbed(c) ==
  pointerClient # NoClient /\ pointerClient # c /\ pointerClientAge < 10

\* C14: a pointerEvent(client, pos, mask) that arrives while pointerClient
\* is set, is another client, and the last accepted pointer event is less
\* than 10 seconds old is dropped: no backend call, pointerClient and
\* pointerClientTime unchanged.  Every other pointer event is forwarded to
\* the backend exactly once with its mask, sets pointerClientTime to now
\* and leaves pointerClient equal to the client if mask /= 0 and null if
\* mask = 0.  Hence a button-down event of a second client is forwarded
\* only once the grab window of the first has run out.
C14_PointerArbitration ==
  [][\A c \in Sockets, mask \in 0..1, e \in SockEnvs :
       PointerEvent(c, mask, e) /\ fault' = "none" =>
         IF Grabbed(c)
         THEN /\ calls' = << >>
              /\ pointerClient' = pointerClient
              /\ pointerClientAge' = pointerClientAge
         ELSE /\ Cardinality(PointerCalls(calls')) = 1
              /\ calls'[1] = [to |-> "desktop", c |-> NoClient,
                              m |-> "pointerEvent", arg |-> mask]
              /\ pointerClientAge' = 0
              /\ pointerClient' = IF mask # 0 THEN c ELSE NoClient
              /\ pointerClient \notin {NoClient, c} =>
                   pointerClientAge >= 10]_vars

\* A second client's event was dropped while the first held the pointer.
C14_EventDropped ==
  /\ lastOp.op = "pointerEvent"
  /\ calls = << >>
  /\ pointerClient \notin {NoClient, lastOp.sock}
  /\ pointerClientAge = GrabSeconds - 1

\* -------------------------------------------------- clipboard ownership
\* Runs that accept the clients' clipboard and runs that do not.
ClipConfigs == {DefaultConfig, [DefaultConfig EXCEPT !.acceptCutText = FALSE]}

NextClip ==
  \/ \E c \in Sockets : AddSocket(c, "accepted")
  \/ \E c \in Sockets : QueryConnection(c, QuietEnv)
  \/ \E c \in Sockets : RemoveSocket(c, QuietEnv)
  \/ \E c \in Sockets, b \in BOOLEAN : HandleClipboardAnnounce(c, b)
  \/ \E c \in Sockets, e \in FbEnvs : HandleClipboardRequest(c, e)
  \/ \E b \in BOOLEAN : AnnounceClipboard(b)
  \/ SendClipboardData(FALSE)
  \/ CloseAllClients

SpecClip == InitWith(ClipConfigs) /\ [][NextClip]_vars

\* The backend was told once of the announcement.
BackendAnnounced(available) ==
  /\ calls' # << >>
  /\ calls'[1] = [to |-> "desktop", c |-> NoClient,
                  m |-> "handleClipboardAnnounce",
                  arg |-> IF available THEN 1 ELSE 0]
  /\ \A i \in 2..Len(calls') : calls'[i].m # "handleClipboardAnnounce"

\* C15: handleClipboardAnnounce(client, true) is a no-op when acceptCutText
\* is false (clipboardClient unchanged, backend not notified) and otherwise
\* sets clipboardClient to the client and notifies the backend with
\* available = true; handleClipboardAnnounce(client, false) clears
\* clipboardClient only when the client owns the clipboard and otherwise
\* changes nothing.  A client becomes the owner by no other step, so the
\* owner is always the most recent accepted announcer.
C15_ClipboardOwnership ==
  [][/\ \A c \in Sockets, b \in BOOLEAN :
          HandleClipboardAnnounce(c, b) =>
            IF b /\ ~cfg.acceptCutText
            THEN clipboardClient' = clipboardClient /\ calls' = << >>
            ELSE IF b
            THEN clipboardClient' = c /\ BackendAnnounced(TRUE)
            ELSE IF clipboardClient = c
            THEN clipboardClient' = NoClient /\ BackendAnnounced(FALSE)
            ELSE clipboardClient' = clipboardClient /\ calls' = << >>
     /\ clipboardClient' \notin {NoClient, clipboardClient} =>
          /\ lastOp'.op = "handleClipboardAnnounce"
          /\ lastOp'.sock = clipboardClient'
          /\ cfg.acceptCutText]_vars

\* A client that does not own the clipboard withdrew its own: the owner
\* kept the clipboard and the backend heard nothing.
C15_OwnerKept ==
  /\ lastOp.op = "handleClipboardAnnounce"
  /\ clipboardClient \notin {NoClient, lastOp.sock}
  /\ calls = << >>

\* ------------------------------------------------ client-driven resize
ResizeConfigs ==
  {DefaultConfig, [DefaultConfig EXCEPT !.acceptSetDesktopSize = FALSE]}

\* The sizes a client asks for: small ones and ones just over the limit
\* in either direction.
DesktopSizes ==
  PixelBuffers \cup {[w |-> MaxFbSize + 1, h |-> 1],
                     [w |-> 1, h |-> MaxFbSize + 1]}

NextResize ==
  \/ \E c \in Sockets : AddSocket(c, "accepted")
  \/ \E c \in Sockets : QueryConnection(c, QuietEnv)
  \/ \E c \in Sockets : RemoveSocket(c, QuietEnv)
  \/ \E c \in Sockets, size \in DesktopSizes, l \in Layouts,
        a \in Answers, i \in Installs : SetDesktopSize(c, size, l, a, i)

SpecResize == InitWith(ResizeConfigs) /\ [][NextResize]_vars

\* The calls in cs that tell connection c of a changed screen layout.
LayoutNotices(cs, c) ==
  {i \in 1..Len(cs) : cs[i].to = "client" /\ cs[i].c = c
                        /\ cs[i].m = "screenLayoutChangeOrClose"}
BackendCalls(cs) ==
  {i \in 1..Len(cs) : cs[i].to = "desktop" /\ cs[i].m = "setScreenLayout"}

\* What setDesktopSize(requester, w, h, layout) promises about the record
\* r it ends in; strict: the requester is told of no layout change at
\* all, with whatever reason.
ResizeContract(r, requester, w, h, layout, answer, strict) ==
  IF ~cfg.acceptSetDesktopSize \/ Max(w, h) > 16384
  THEN r.result = "prohibited" /\ r.calls = << >>
  ELSE IF ~Validate(layout, w, h)
  THEN r.result = "invalid" /\ r.calls = << >>
  ELSE /\ Cardinality(BackendCalls(r.calls)) = 1
       /\ answer # "success" /\ r.result \in Answers =>
            /\ r.result = answer
            /\ \A c \in SeqSet(clients) : \A i \in LayoutNotices(r.calls, c) :
                 r.calls[i].arg # 2
       /\ answer = "success" /\ r.screenLayout = layout /\ r.result \in Answers =>
            /\ r.result = "success"
            /\ \A c \in SeqSet(clients) \ {requester} :
                 Cardinality({i \in LayoutNotices(r.calls, c) :
                                r.calls[i].arg = 2}) = 1
            /\ \A i \in LayoutNotices(r.calls, requester) :
                 ~strict /\ r.calls[i].arg # 2

ResizeHolds(strict) ==
  \A c \in SeqSet(clients) \cap authenticated, size \in DesktopSizes,
     l \in Layouts, a \in Answers, i \in Installs :
       ResizeContract(SetDesktopSizeBody(Cur, c, size.w, size.h, l, a, i),
                      c, size.w, size.h, l, a, strict)

\* C16: setDesktopSize(requester, w, h, layout) returns prohibited without
\* calling the backend or notifying any Connection when acceptSetDesktopSize
\* is false or max(w, h) > 16384; otherwise returns invalid without calling
\* the backend when the layout fails validate(w, h); otherwise calls the
\* backend exactly once and, if the backend result is not success, returns
\* that result; on backend success with screenLayout == layout it returns
\* success and notifies every Connection except the requester exactly once
\* with reason other-client, and the requester not at all.
C16_ResizeNotifiesOthersOnly == ResizeHolds(TRUE)

\* C16 as the code keeps it: the requester gets no notification with
\* reason other-client.
C16_ResizeSparesRequester == ResizeHolds(FALSE)

\* A resize succeeded and the requester was told of the new layout all
\* the same.
C16_RequesterNotified ==
  /\ lastOp.op = "setDesktopSize"
  /\ lastOp.result = "success"
  /\ LayoutNotices(calls, lastOp.sock) # {}

\* ------------------------------------------------ socket readiness events
\* The Connection method a readiness event stands for.
EventMethod(op) ==
  IF op = "processSocketReadEvent" THEN "processMessages" ELSE "flushSocket"

\* C17: processSocketReadEvent(sock) and processSocketWriteEvent(sock)
\* invoke processMessages, respectively flushSocket, on exactly the one
\* Connection whose socket is sock; when no Connection has that socket,
\* also when the socket is only in closingSockets, they fail with
\* invalid-argument and invoke no Connection.  Either way the coordinator's
\* own fields stay as they were.
C17_EventReachesItsConnection ==
  [][lastOp'.op \in {"processSocketReadEvent", "processSocketWriteEvent"} =>
       /\ IF \E i \in 1..Len(clients) : clients[i] = lastOp'.sock
          THEN /\ calls' = << [to |-> "client", c |-> lastOp'.sock,
                               m |-> EventMethod(lastOp'.op), arg |-> 0] >>
               /\ lastOp'.result = "ok"
          ELSE /\ calls' = << >>
               /\ lastOp'.result = "invalid_argument"
       /\ UNCHANGED CoordState]_vars

\* A readiness event for a socket that is only in closingSockets failed.
C17_ClosingSocketRefused ==
  /\ lastOp.op \in {"processSocketReadEvent", "processSocketWriteEvent"}
  /\ lastOp.result = "invalid_argument"
  /\ lastOp.sock \in SeqSet(closingSockets)
  /\ lastOp.sock \notin SeqSet(clients)
  /\ calls = << >>

\* ------------------------------------------------------ keyboard LEDs
LedStates == 0..MaxLed

NextLed ==
  \/ \E c \in Sockets : AddSocket(c, "accepted")
  \/ \E c \in Sockets, led \in LedStates :
       QueryConnection(c, [QuietEnv EXCEPT !.led = led])
  \/ \E c \in Sockets : RemoveSocket(c, QuietEnv)
  \/ \E state \in LedStates : Desktop_setLEDState(state)

SpecLed == InitDefault /\ [][NextLed]_vars

\* The calls that tell every connection of seq, front first, of state.
LedBroadcast(seq, state) ==
  [i \in 1..Len(seq) |-> [to |-> "client", c |-> seq[i],
                          m |-> "setLEDStateOrClose", arg |-> state]]

\* r is where setLEDState(state) ends and again where a second
\* setLEDState(state) ends after it.
LedContract(r, again, state) ==
  /\ r.ledState = state
  /\ r.calls = IF state = ledState THEN << >>
               ELSE LedBroadcast(clients, state)
  /\ again.ledState = state
  /\ again.calls = r.calls

\* C18: setLEDState(state) tells the connections iff state differs from
\* the stored ledState; a second setLEDState with the same state tells
\* nobody, so the pair makes one broadcast; the initial ledState is the
\* unknown sentinel, so the first state the backend reports is always
\* broadcast.
C18_LedBroadcastOnChange ==
  \A state \in LedStates :
    /\ LedContract(SetLEDState(Cur, state),
                   SetLEDState(SetLEDState(Cur, state), state), state)
    /\ ledState = -1 =>
         SetLEDState(Cur, state).calls = LedBroadcast(clients, state)

\* An LED state was reported while a client was connected: the client
\* was told.
C18_FirstStateBroadcast ==
  /\ lastOp.op = "setLEDState"
  /\ calls # << >>
  /\ calls = LedBroadcast(clients, ledState)
  /\ ledState = 0

\* ---------------------------------------------- the layout and the buffer
\* Every Screen of layout lies inside the framebuffer of p.
InsideFramebuffer(layout, p) ==
  \A sc \in layout :
    /\ 0 <= sc.dim.x1 /\ sc.dim.x2 <= p.w
    /\ 0 <= sc.dim.y1 /\ sc.dim.y2 <= p.h

\* C19: after every public operation, while pb is non-null the
\* screenLayout is non-empty and every Screen rectangle lies inside the
\* framebuffer rectangle (0, 0, pb.width, pb.height); setPixelBuffer(pb)
\* completes without fault for every prior layout, the empty one left
\* behind by setPixelBuffer(null) included, and for pb = null.
C19_LayoutFitsFramebuffer ==
  /\ pb # NoPb => screenLayout # {} /\ InsideFramebuffer(screenLayout, pb)
  /\ lastOp.op = "setPixelBuffer" => fault = "none"

\* C19, the part the code keeps: for a non-null pb the layout-inferred
\* setPixelBuffer(pb) ends without fault or error in a non-empty layout
\* inside the new framebuffer, made of the prior Screens that still
\* overlap it, each clipped to it, or of one Screen covering all of it
\* when none overlaps.
Clipped(sc, p) ==
  [id |-> sc.id,
   dim |-> [x1 |-> Max(sc.dim.x1, 0), y1 |-> Max(sc.dim.y1, 0),
            x2 |-> Min(sc.dim.x2, p.w), y2 |-> Min(sc.dim.y2, p.h)]]
Overlapping(layout, p) ==
  {sc \in layout : Clipped(sc, p).dim.x1 < Clipped(sc, p).dim.x2
                     /\ Clipped(sc, p).dim.y1 < Clipped(sc, p).dim.y2}
InferredLayout(r, p) ==
  /\ r.fault = "none" /\ r.result = "ok"
  /\ r.pb = p
  /\ r.screenLayout # {} /\ InsideFramebuffer(r.screenLayout, p)
  /\ r.screenLayout =
       IF Overlapping(screenLayout, p) = {}
       THEN {[id |-> 0, dim |-> [x1 |-> 0, y1 |-> 0, x2 |-> p.w, y2 |-> p.h]]}
       ELSE {Clipped(sc, p) : sc \in Overlapping(screenLayout, p)}
C19_InferredLayoutClipped ==
  \A p \in PixelBuffers : InferredLayout(SetPixelBuffer1(Cur, p), p)

\* setPixelBuffer(null) met an empty layout and read the width of the
\* null buffer.
C19_NullBufferFaults ==
  /\ lastOp.op = "setPixelBuffer"
  /\ fault = "nullderef"
  /\ screenLayout = {}

\* ------------------------------------------- the frame tick's early exit
\* What a tick does when it returns early, and what it does otherwise.
TickOutcome(early) ==
  IF early
  THEN /\ ~frameTimer'
       /\ msc' = msc
       /\ calls' = << >>
  ELSE /\ frameTimer'
       /\ msc' = msc + 1
       /\ calls'[Len(calls')] = [to |-> "desktop", c |-> NoClient,
                                 m |-> "frameTick", arg |-> msc']

IdleBefore == ~desktopStarted \/ comparer = "empty"

\* C20 as stated: when the frameTimer expires and nothing is pending (the
\* desktop is not started, or the comparer is empty) and queuedMsc <= msc,
\* the tick returns without re-arming the timer, without running
\* writeUpdate, without incrementing msc and without calling
\* desktop.frameTick; in every other case the tick re-arms the timer and
\* advances msc.
C20_EarlyExitAtOrBelowMsc ==
  [][lastOp'.op = "frameTick" /\ fault' = "none" =>
       TickOutcome(IdleBefore /\ queuedMsc <= msc)]_vars

\* C20: the tick returns early, without re-arming the timer, running
\* writeUpdate, incrementing msc or calling desktop.frameTick, exactly when
\* nothing is pending and queuedMsc < msc; in every other case, also when
\* nothing is pending and queuedMsc = msc, it re-arms the timer and
\* advances msc.
C20_EarlyExitBelowMsc ==
  [][lastOp'.op = "frameTick" /\ fault' = "none" =>
       TickOutcome(IdleBefore /\ queuedMsc < msc)]_vars

\* A tick of a started desktop found the comparer empty and msc equal to
\* queuedMsc: it re-armed the timer and advanced msc.
C20_TickAtQueuedMsc ==
  /\ lastOp.op = "frameTick"
  /\ desktopStarted
  /\ comparer = "empty"
  /\ calls = << [to |-> "desktop", c |-> NoClient,
                 m |-> "frameTick", arg |-> msc] >>
  /\ frameTimer
  /\ msc = queuedMsc + 1

\* ------------------------------------------------ progress of the msc
\* The frame clock's operations with a backend that lets clients
\* authenticate only while it holds no block.
NextMsc ==
  \/ BlockUpdates
  \/ UnblockUpdates
  \/ \E t \in 0..MaxMsc : QueueMsc(t)
  \/ Add_changed(TRUE)
  \/ FrameTick(QuietEnv)
  \/ \E c \in FrameSockets : AddSocket(c, "accepted")
  \/ \E c \in FrameSockets : blockCounter = 0 /\ QueryConnection(c, QuietEnv)
  \/ \E c \in FrameSockets : RemoveSocket(c, QuietEnv)

\* An armed frameTimer expires sooner or later, and the backend matches
\* every blockUpdates with an unblockUpdates, so that again and again no
\* block is held.
SpecMsc ==
  /\ InitDefault /\ [][NextMsc]_vars
  /\ SF_vars(FrameTick(QuietEnv))
  /\ []<>(blockCounter = 0)

EnteredWriteUpdate ==
  \E i \in 1..Len(calls) : calls[i].to = "server" /\ calls[i].m = "writeUpdate"

\* C22: every entry into writeUpdate, from the frame tick and from
\* startDesktop alike, happens with blockCounter = 0, the desktop started
\* and comparer and pb non-null, and so passes its assertions; a client
\* that authenticates while the backend holds updates blocked does not
\* run writeUpdate.
C22_WriteUpdateOnlyUnblocked ==
  EnteredWriteUpdate =>
    /\ blockCounter = 0
    /\ desktopStarted
    /\ comparer # "null" /\ pb # NoPb
    /\ fault = "none"

\* A client authenticated while updates were blocked: startDesktop
\* entered writeUpdate and its assertion of blockCounter = 0 failed.
C22_WriteUpdateWhileBlocked ==
  /\ lastOp.op = "queryConnection"
  /\ EnteredWriteUpdate
  /\ blockCounter > 0
  /\ fault = "assert"

\* C22, the part the code keeps: the frame tick enters writeUpdate only
\* with blockCounter = 0, the desktop started and comparer and pb non-null.
C22_TickWritesUnblocked ==
  lastOp.op = "frameTick" =>
    /\ fault = "none"
    /\ EnteredWriteUpdate =>
         blockCounter = 0 /\ desktopStarted /\ comparer # "null" /\ pb # NoPb

\* ------------------------------------------- the order inside a tick
NextFeed ==
  \/ \E c \in Sockets : AddSocket(c, "accepted")
  \/ \E c \in Sockets : QueryConnection(c, QuietEnv)
  \/ \E c \in Sockets : RemoveSocket(c, QuietEnv)
  \/ Add_changed(TRUE)
  \/ Add_copied(TRUE)
  \/ \E t \in 0..MaxMsc : QueueMsc(t)
  \/ \E hit \in BOOLEAN : FrameTick([QuietEnv EXCEPT !.cursorHit = hit])
  \/ CloseAllClients

SpecFeed == InitDefault /\ [][NextFeed]_vars

\* What a tick that runs writeUpdate calls, in order, for the
\* connections of seq and the frame count n it ends with.
TickCalls(seq, n) ==
  LET k == Len(seq)
  IN  [i \in 1..(3 * k + 3) |->
         IF i = 1
         THEN [to |-> "server", c |-> NoClient, m |-> "writeUpdate", arg |-> 0]
         ELSE IF i = 2
         THEN [to |-> "comparer", c |-> NoClient, m |-> "clear", arg |-> 0]
         ELSE IF i = 3 * k + 3
         THEN [to |-> "desktop", c |-> NoClient, m |-> "frameTick", arg |-> n]
         ELSE [to |-> "client", c |-> seq[(i \div 3)],
               m |-> CASE i % 3 = 0 -> "add_copied"
                       [] i % 3 = 1 -> "add_changed"
                       [] OTHER -> "writeFramebufferUpdateOrClose",
               arg |-> 0]]

\* C23: inside one frame tick the comparer is drained and reset before
\* any Connection is fed; each Connection gets add_copied, then
\* add_changed, then writeFramebufferUpdateOrClose; every member of
\* clients is fed, in list order; and desktop.frameTick is called last,
\* with the incremented msc.  No Connection leaves clients in the tick.
C23_TickOrder ==
  [][lastOp'.op = "frameTick" /\ fault' = "none"
       /\ desktopStarted /\ comparer = "dirty" =>
         /\ calls' = TickCalls(clients, msc + 1)
         /\ clients' = clients
         /\ msc' = msc + 1
         /\ comparer' = "empty"]_vars

\* A tick has fed two connections.
C23_TwoConnectionsFed ==
  /\ lastOp.op = "frameTick"
  /\ Len(clients) = 2
  /\ calls = TickCalls(clients, msc)

\* ---------------------------------------------------------------------
\* Desktop life cycle: start() and stop() of the backend.

\* ~VNCServerST(): close and delete every client, stop the frame clock,
\* stop the desktop, delete the comparer.
DeleteClients(s) ==
  [CallEach(s, s.clients, "delete")
     EXCEPT !.clients = << >>, !.authenticated = {}]

Shutdown ==
  Op("~VNCServerST", NoClient,
     [StopDesktop(DeleteClients(StopFrameClock(CloseClients(Cur, NoClient))))
        EXCEPT !.comparer = "null"])

\* No operation is invoked on a destroyed coordinator.
Alive == lastOp.op # "~VNCServerST"

StartOutcomes == {"ok", "early", "late"}

NextDesktop ==
  \/ \E c \in Sockets : Alive /\ AddSocket(c, "accepted")
  \/ \E c \in Sockets, st \in StartOutcomes :
       Alive /\ QueryConnection(c, [QuietEnv EXCEPT !.start = st])
  \/ \E c \in Sockets : Alive /\ RemoveSocket(c, QuietEnv)
  \/ Alive /\ Shutdown

SpecDesktop == InitDefault /\ [][NextDesktop]_vars

\* The start() and stop() calls an operation made on the backend, in order.
Lifecycle(cs) ==
  LET l == SelectSeq(cs, LAMBDA x : x.to = "desktop"
                                      /\ x.m \in {"start", "stop"})
  IN [i \in 1..Len(l) |-> l[i].m]

\* An operation calls start() only while desktopStarted is false and
\* stop() only while it is true, at most one of them and at most once;
\* stop() leaves desktopStarted false; without either call desktopStarted
\* is unchanged; after start() it is startedAfter.
LifecycleStep(startedAfter) ==
  /\ Lifecycle(calls') \in {<< >>, <<"start">>, <<"stop">>}
  /\ Lifecycle(calls') = <<"start">> =>
       ~desktopStarted /\ desktopStarted' = startedAfter
  /\ Lifecycle(calls') = <<"stop">> => desktopStarted /\ ~desktopStarted'
  /\ Lifecycle(calls') = << >> => desktopStarted' = desktopStarted

\* C24 (as stated): start() and stop() strictly alternate, beginning with
\* start(), and desktopStarted is true exactly between a start() and the
\* following stop(): every start() is called with desktopStarted false
\* and leaves it true, every stop() is called with it true and leaves it
\* false.
C24_StrictAlternation == [][LifecycleStep(TRUE)]_vars

\* C24: over any sequence of queryConnection, removeSocket and shutdown,
\* start() is called only while desktopStarted is false and stop() only
\* while it is true; desktopStarted becomes true exactly when start()
\* returned normally with a PixelBuffer installed, and a start() that
\* failed leaves it false, so that no stop() follows it and the next
\* queryConnection calls start() again.  Successful start() calls and
\* stop() calls alternate.
C24_StartedBetweenStartAndStop ==
  [][LifecycleStep(lastOp'.result = "ok" /\ pb' # NoPb)]_vars

\* start() failed after the backend had installed its PixelBuffer.
C24_FailedStartLeavesStopped ==
  /\ lastOp.op = "queryConnection"
  /\ Lifecycle(calls) = <<"start">>
  /\ lastOp.result # "ok"
  /\ ~desktopStarted
  /\ pb # NoPb

\* An authenticated Connection is left in clients after the step.
AuthRemains == \E i \in 1..Len(clients') : clients'[i] \in authenticated'

\* removeSocket destroyed a Connection; stop() ran re-entrantly without a
\* fault, and only when no authenticated client was left.  released: the
\* framebuffer state required after the last removal.
RemovalStops(released) ==
  lastOp'.op = "removeSocket" /\ InSeq(clients, lastOp'.sock) =>
    /\ fault' = "none" /\ lastOp'.result = "ok"
    /\ AuthRemains =>
         Lifecycle(calls') = << >> /\ desktopStarted' = desktopStarted
    /\ ~AuthRemains =>
         /\ desktopStarted => Lifecycle(calls') = <<"stop">>
         /\ ~desktopStarted'
         /\ released

\* C25: when removeSocket destroys a Connection and no authenticated
\* client remains the desktop is stopped; the backend's call back into
\* setPixelBuffer(null) from stop() raises no fault; after removeSocket
\* desktopStarted is false and pb and comparer are both null.  While an
\* authenticated client remains the desktop is not stopped.
C25_LastRemovalReleasesDesktop ==
  [][RemovalStops(pb' = NoPb /\ comparer' = "null")]_vars

\* The same with the framebuffer released only when the desktop had been
\* started.
C25_LastRemovalStopsStarted ==
  [][RemovalStops(desktopStarted => pb' = NoPb /\ comparer' = "null")]_vars

\* The last Connection is gone, the desktop is not started, and the
\* coordinator still holds the backend's PixelBuffer and a comparer.
C25_BufferKeptAfterLastRemoval ==
  /\ lastOp.op = "removeSocket"
  /\ clients = << >>
  /\ ~desktopStarted
  /\ pb # NoPb
  /\ comparer # "null"

\* ---------------------------------------------------------------------
\* Admission of an authenticated peer: queryConnection and clientReady.

\* approveConnection(sock, accept, reason), called by the backend's query
\* handler once the local user has answered.
ApproveConnection(sock, accept) ==
  /\ sock \notin authenticated
  /\ Op("approveConnection", sock, ApproveConnectionBody(Cur, sock, accept))

ShareConfigs ==
  { [DefaultConfig EXCEPT !.neverShared = ns, !.disconnectClients = dc,
                          !.queryConnect = qc] :
      ns \in BOOLEAN, dc \in BOOLEAN, qc \in BOOLEAN }

QueryEnvs ==
  { [QuietEnv EXCEPT !.requiresQuery = rq, !.noQuery = nq, !.handler = h,
                     !.start = st] :
      rq \in BOOLEAN, nq \in BOOLEAN, h \in BOOLEAN, st \in {"ok", "early"} }

ReadyEnvs == { [QuietEnv EXCEPT !.nonShared = n] : n \in BOOLEAN }

NextShare ==
  \/ \E c \in Sockets : AddSocket(c, "accepted")
  \/ \E c \in Sockets, e \in QueryEnvs : QueryConnection(c, e)
  \/ \E c \in Sockets, a \in BOOLEAN : ApproveConnection(c, a)
  \/ \E c \in Sockets, sh \in BOOLEAN, e \in ReadyEnvs : ClientReady(c, sh, e)
  \/ \E c \in Sockets : RemoveSocket(c, QuietEnv)

SpecShare == InitWith(ShareConfigs) /\ [][NextShare]_vars

\* The calls of an operation on one collaborator's method.
CallsOf(cs, to, m) == SelectSeq(cs, LAMBDA x : x.to = to /\ x.m = m)

Approval(c, accept) ==
  [to |-> "client", c |-> c, m |-> "approveConnectionOrClose",
   arg |-> IF accept THEN 1 ELSE 0]

\* What queryConnection(c) with result r must have done in the current
\* state: the peer's blackmark is cleared first and the desktop is
\* started; then "already in use" is tested before auto-approval, and
\* auto-approval before the backend's query.
QueryContract(r, c, env) ==
  LET inUse == cfg.neverShared /\ ~cfg.disconnectClients
                 /\ AuthClientCount(Cur) > 0
      auto  == (~cfg.queryConnect /\ ~env.requiresQuery) \/ env.noQuery
      approvals == CallsOf(r.calls, "client", "approveConnectionOrClose")
      asked == CallsOf(r.calls, "desktop", "queryConnection")
  IN  /\ r.calls[1] = [to |-> "blHosts", c |-> c, m |-> "clearBlackmark",
                       arg |-> 0]
      /\ Lifecycle(r.calls) = IF desktopStarted THEN << >> ELSE <<"start">>
      /\ Len(approvals) <= 1
      /\ r.authenticated \ authenticated \subseteq {c}
      /\ IF r.result # "ok"
         THEN env.start # "ok" /\ ~desktopStarted /\ ~r.desktopStarted
              /\ approvals = << >> /\ asked = << >>
         ELSE /\ r.desktopStarted
              /\ IF inUse
                 THEN /\ approvals = << Approval(c, FALSE) >>
                      /\ asked = << >>
                      /\ c \notin r.authenticated
                 ELSE IF auto
                 THEN /\ approvals = << Approval(c, TRUE) >>
                      /\ asked = << >>
                      /\ c \in r.authenticated
                 ELSE /\ asked = << [to |-> "desktop", c |-> c,
                                     m |-> "queryConnection", arg |-> 0] >>
                      /\ approvals = IF env.handler THEN << >>
                                     ELSE << Approval(c, TRUE) >>

\* C26: queryConnection(client, userName) clears the peer from the
\* blacklist, starts the desktop, and then takes exactly one of three
\* decisions, tested in this order: reject when neverShared and not
\* disconnectClients and authClientCount() > 0; auto-approve when (not
\* queryConnect and the socket requires no query) or the client holds
\* AccessNoQuery; otherwise ask the backend.  The backend is never asked
\* for a client that was rejected or auto-approved, and no client is both
\* approved and rejected.
C26_QueryDecision ==
  \A c \in Sockets, env \in QueryEnvs :
    fault = "none" /\ InSeq(clients, c) /\ c \notin authenticated =>
      QueryContract(QueryConnectionBody(Cur, c, env), c, env)

\* A second peer was rejected with "already in use" although it needed
\* no query.
C26_RejectedInUse ==
  /\ lastOp.op = "queryConnection"
  /\ cfg.neverShared /\ ~cfg.disconnectClients /\ ~cfg.queryConnect
  /\ calls[Len(calls)] = Approval(lastOp.sock, FALSE)
  /\ lastOp.sock \notin authenticated
  /\ authenticated # {}

\* The Connections an operation asked to close, in call order.
Closed(cs) ==
  LET l == CallsOf(cs, "client", "close") IN [i \in 1..Len(l) |-> l[i].c]

\* What clientReady(c, shared) with result r must have done in the
\* current state.
ReadyContract(r, c, shared, env) ==
  /\ r.clients = clients
  /\ r.result = "ok" /\ r.fault = "none"
  /\ IF shared THEN Closed(r.calls) = << >>
     ELSE IF cfg.disconnectClients /\ env.nonShared
     THEN Closed(r.calls) = SelectSeq(clients, LAMBDA x : x # c)
     ELSE Closed(r.calls) = IF AuthClientCount(Cur) >= 2 THEN << c >>
                            ELSE << >>

\* C27: clientReady(client, shared) closes nobody when shared; when not
\* shared, disconnectClients set and the client holding AccessNonShared,
\* it asks every other member of clients to close and never the client
\* itself; when not shared otherwise, it closes the client itself iff at
\* least 2 clients are authenticated, and nobody else.  It never removes
\* a Connection from clients.
C27_ClientReadyCloses ==
  \A c \in Sockets, shared \in BOOLEAN, env \in ReadyEnvs :
    fault = "none" /\ InSeq(clients, c) /\ c \in authenticated =>
      ReadyContract(ClientReadyBody(Cur, c, shared, env), c, shared, env)

\* A non-shared client made the coordinator close the other Connection,
\* which stays listed.
C27_OtherClientClosed ==
  /\ lastOp.op = "clientReady"
  /\ Len(clients) = 2
  /\ Closed(calls) = SelectSeq(clients, LAMBDA x : x # lastOp.sock)
  /\ authenticated = {lastOp.sock}

\* A non-shared client was itself closed because another authenticated
\* client exists.
C27_SelfClosed ==
  /\ lastOp.op = "clientReady"
  /\ Closed(calls) = << lastOp.sock >>
  /\ Cardinality(authenticated) = 2

\* ---------------------------------------------------------------------
\* Clipboard requests: pending requestors and the backend's answer.

RequestConfigs ==
  ClipConfigs \cup {[DefaultConfig EXCEPT !.sendCutText = FALSE]}

\* SDisplay answers a fetch from inside handleClipboardRequest, so no
\* fetch is outstanding between two operations.  The fairness condition
\* grants more than SDisplay does: the backend goes on handing clipboard
\* text to sendClipboardData for ever.
SpecRequest ==
  /\ InitWith(RequestConfigs)
  /\ [][NextClip]_vars
  /\ WF_vars(SendClipboardData(FALSE))

Pending(c) == InSeq(clipboardRequestors, c)

\* C28: every client clipboard request is eventually answered with data
\* or discarded by a later announce or by the client's removal; no
\* requestor stays pending forever with no backend fetch outstanding,
\* also after sendClipboardData was refused (carriage return) or skipped
\* (sendCutText off), and with a backend that answers synchronously.
C28_RequestEventuallySettled ==
  \A c \in Sockets : Pending(c) ~> ~Pending(c)

\* handleClipboardRequest asks the backend to fetch exactly when the list
\* was empty before, and appends the client in any case.
C28_FetchIffFirstRequestor ==
  \A c \in Sockets, env \in FbEnvs :
    fault = "none" /\ InSeq(clients, c) =>
      (CallsOf(HandleClipboardRequestBody(Cur, c, env).calls,
               "desktop", "handleClipboardRequest") # << >>)
        = (clipboardRequestors = << >>)

\* A second client asked for the clipboard while an unanswered requestor
\* was pending: it is appended and the backend is not asked again.
C28_RequestorStranded ==
  /\ lastOp.op = "handleClipboardRequest"
  /\ lastOp.result = "ok"
  /\ Len(clipboardRequestors) = 2
  /\ clipboardRequestors[2] = lastOp.sock
  /\ calls = << >>

\* ---------------------------------------------------------------------
\* The connection-time limit.

\* C29: with maxConnectionTime > 0 the connectTimer started when the first
\* client joined runs for as long as clients is non-empty, and it is not
\* running when clients is empty.
C29_ConnectTimerTracksClients ==
  cfg.maxConnectionTime # 0 => (connectTimer <=> clients # << >>)

\* A client left while another one stays: the connectTimer is stopped
\* with a member in clients.
C29_TimerStoppedWithClient ==
  /\ cfg.maxConnectionTime # 0
  /\ lastOp.op = "removeSocket"
  /\ clients # << >>
  /\ ~connectTimer

\* A later client joins the remaining one: the connectTimer stays stopped.
C29_TimerNotRestarted ==
  /\ cfg.maxConnectionTime # 0
  /\ lastOp.op = "addSocket"
  /\ Len(clients) = 2
  /\ ~connectTimer

\* ---------------------------------------------------------------------
\* Input events and the idle timer.

\* handleTimeout(&idleTimer): the idle period ran out.
IdleTimeout ==
  /\ idleTimer
  /\ Op("handleTimeout", NoClient,
        Call([Cur EXCEPT !.idleTimer = FALSE], "desktop", NoClient,
             "terminate"))

InputConfigs ==
  { [DefaultConfig EXCEPT !.maxIdleTime = idle, !.acceptKeyEvents = k,
                          !.acceptPointerEvents = p] :
      idle \in 0..1, k \in BOOLEAN, p \in BOOLEAN }

NextInput ==
  \/ \E c \in Sockets : AddSocket(c, "accepted")
  \/ \E c \in Sockets : QueryConnection(c, QuietEnv)
  \/ \E c \in Sockets : RemoveSocket(c, QuietEnv)
  \/ \E c \in Sockets, mask \in 0..1 : PointerEvent(c, mask, QuietEnv)
  \/ \E c \in Sockets : KeyEvent(c, QuietEnv)
  \/ \E d \in Elapsed : TimePasses(d)
  \/ IdleTimeout

SpecInput == InitWith(InputConfigs) /\ [][NextInput]_vars

\* The input event of this step reached the backend.
Accepted ==
  \E i \in 1..Len(calls') :
    calls'[i].to = "desktop" /\ calls'[i].m \in {"pointerEvent", "keyEvent"}

IdleRestarted == CallsOf(calls', "idleTimer", "start") # << >>

\* The event of this step left the pointer grab, its time stamp and the
\* backend alone.
InputIgnored ==
  /\ pointerClient' = pointerClient
  /\ pointerClientAge' = pointerClientAge
  /\ CallsOf(calls', "desktop", "pointerEvent") = << >>
  /\ CallsOf(calls', "desktop", "keyEvent") = << >>

\* C30: the idle timer is restarted by exactly the input events the
\* coordinator accepts; a pointer event dropped by grab arbitration, or a
\* key or pointer event refused because acceptKeyEvents or
\* acceptPointerEvents is off, changes nothing at all (not pointerClient,
\* not pointerClientTime, not the idle timer) and reaches no backend call.
C30_IdleRestartIffAccepted ==
  [][lastOp'.op \in {"pointerEvent", "keyEvent"} =>
       /\ IdleRestarted <=> (Accepted /\ cfg.maxIdleTime # 0)
       /\ ~Accepted =>
            InputIgnored /\ idleTimer' = idleTimer /\ calls' = << >>]_vars

\* What holds instead: an event refused by its accept flag changes
\* nothing; a pointer event dropped by the grab leaves the grab and the
\* backend alone but restarts the idle timer like an accepted one.
C30_IdleRestartUnlessRefused ==
  [][lastOp'.op \in {"pointerEvent", "keyEvent"} =>
       LET off == IF lastOp'.op = "keyEvent" THEN ~cfg.acceptKeyEvents
                  ELSE ~cfg.acceptPointerEvents
       IN  /\ IdleRestarted <=> (~off /\ cfg.maxIdleTime # 0)
           /\ IdleRestarted => idleTimer'
           /\ ~Accepted => InputIgnored
           /\ off => ~Accepted /\ idleTimer' = idleTimer /\ calls' = << >>]_vars

\* A pointer event was dropped because another client holds the grab, and
\* it restarted the idle timer that had run out.
C30_DroppedEventRestartsIdleTimer ==
  /\ lastOp.op = "pointerEvent"
  /\ pointerClient \notin {NoClient, lastOp.sock}
  /\ pointerClientAge < GrabSeconds
  /\ calls = << [to |-> "idleTimer", c |-> NoClient, m |-> "start",
                 arg |-> 0] >>
  /\ idleTimer

\* ---------------------------------------------------------------------
\* The borrowed PixelBuffer: backend restarts against ticks and reads.

\* stopCore() deleted the backend's buffer and the coordinator still holds
\* the pointer to it (SDisplay is the only one to install buffers here).
Freed(s) == s.pb # NoPb /\ s.sdPb = NoPb

\* What reading through a deleted buffer can lead to.
StaleOutcomes == {"crash", "garbage"}

\* pb->getRect(), pb->grabRegion(), renderedCursor.update(pb, ...) inside
\* the coordinator's method m.
UsePb(s, m, outcome) ==
  IF s.pb = NoPb
  THEN Crash(Call(s, "server", NoClient, m), "nullderef")
  ELSE IF Freed(s) /\ outcome = "crash"
  THEN Crash(Call(s, "server", NoClient, m), "useafterfree")
  ELSE Call(s, "server", NoClient, m)

\* handleTimeout(&frameTimer) with the buffer that writeUpdate reads.
FrameTimeoutBorrowed(s, env, outcome) ==
  IF ~(NothingPending(s) /\ s.queuedMsc < s.msc)
       /\ s.desktopStarted /\ s.comparer = "dirty"
       /\ Freed(s) /\ outcome = "crash"
  THEN UsePb([s EXCEPT !.frameTimer = TRUE], "writeUpdate", outcome)
  ELSE FrameTimeout(s, env)

FrameTickBorrowed(outcome) ==
  /\ frameTimer
  /\ (NothingPending(Cur) /\ queuedMsc < msc) \/ msc < MaxMsc
  /\ Op("frameTick", NoClient, FrameTimeoutBorrowed(Cur, QuietEnv, outcome))

\* getPendingRegion(), called by a Connection that is about to write.
GetPendingRegionBody(s, outcome) ==
  IF s.blockCounter > 0 THEN UsePb(s, "getPendingRegion", outcome)
  ELSE IF s.comparer = "null" THEN Crash(s, "assert")
  ELSE IF s.comparer = "empty" THEN s
  ELSE UsePb(s, "getPendingRegion", outcome)

\* getRenderedCursor()
GetRenderedCursorBody(s, outcome) ==
  IF s.renderedCursorInvalid
  THEN [UsePb(s, "getRenderedCursor", outcome)
          EXCEPT !.renderedCursorInvalid = FALSE]
  ELSE s

GetPendingRegion(c, outcome) ==
  /\ InSeq(clients, c) /\ c \in authenticated
  /\ Op("getPendingRegion", c, GetPendingRegionBody(Cur, outcome))

GetRenderedCursor(c, outcome) ==
  /\ InSeq(clients, c) /\ c \in authenticated
  /\ Op("getRenderedCursor", c, GetRenderedCursorBody(Cur, outcome))

\* SDisplay::processEvent(updateEvent); env.restart: isRestartRequired()
\* or core->flushUpdates() failed; flush: the change tracker holds updates.
SD_processEvent(s, env, flush) ==
  IF ~s.core THEN s
  ELSE IF env.restart THEN SD_restartCore(s, env)
  ELSE IF env.led # s.sdLedState
  THEN SetLEDState([AddToComparer(s, flush) EXCEPT !.sdLedState = env.led],
                   env.led)
  ELSE AddToComparer(s, flush)

ProcessEvent(env, flush) ==
  Op("processEvent", NoClient, SD_processEvent(Cur, env, flush))

RestartEnvs ==
  { [QuietEnv EXCEPT !.restart = r, !.start = st] :
      r \in BOOLEAN, st \in StartOutcomes }

NextBorrow ==
  \/ \E c \in FrameSockets : AddSocket(c, "accepted")
  \/ \E c \in FrameSockets : QueryConnection(c, QuietEnv)
  \/ \E c \in FrameSockets : RemoveSocket(c, QuietEnv)
  \/ \E c \in FrameSockets, e \in RestartEnvs : PointerEvent(c, 0, e)
  \/ \E c \in FrameSockets, e \in RestartEnvs : KeyEvent(c, e)
  \/ \E e \in RestartEnvs, f \in BOOLEAN : ProcessEvent(e, f)
  \/ NotifyDisplayEvent([w |-> 1, h |-> 1])
  \/ \E o \in StaleOutcomes : FrameTickBorrowed(o)
  \/ \E c \in FrameSockets, o \in StaleOutcomes : GetPendingRegion(c, o)
  \/ \E c \in FrameSockets, o \in StaleOutcomes : GetRenderedCursor(c, o)

SpecBorrow == InitDefault /\ [][NextBorrow]_vars

\* The operation of this step read the coordinator's pb.
ReadsPb ==
  \E i \in 1..Len(calls') :
    /\ calls'[i].to = "server"
    /\ calls'[i].m \in {"writeUpdate", "getPendingRegion",
                        "getRenderedCursor"}

\* C31: the coordinator never uses a PixelBuffer the backend has already
\* destroyed: when a frame tick's writeUpdate, getPendingRegion or
\* getRenderedCursor runs, the coordinator's pb is not a buffer that the
\* backend deleted, also after a restartCore whose startCore failed.
C31_NoUseOfFreedBuffer ==
  [][lastOp'.op \in {"frameTick", "getPendingRegion", "getRenderedCursor"}
       /\ ReadsPb => ~Freed(Cur)]_vars

\* A frame tick ran writeUpdate on the buffer that a failed restartCore
\* had deleted, and went on with what it read.
C31_TickReadFreedBuffer ==
  /\ lastOp.op = "frameTick"
  /\ EnteredWriteUpdate
  /\ Freed(Cur)
  /\ desktopStarted /\ ~core
  /\ fault = "none"

\* The same read ended the process.
C31_TickCrashedOnFreedBuffer ==
  /\ lastOp.op = "frameTick"
  /\ fault = "useafterfree"

\* ---------------------------------------------------------------------
\* Destruction of the backend.

\* SDisplay::stop() as run with the given server reference: it calls
\* server->setPixelBuffer(nullptr) without testing server, and a call
\* through the null reference faults in every build (the method is
\* virtual, and its body reads the coordinator's fields).
SD_stopVia(s, server) ==
  IF server THEN SD_stop(s)
  ELSE Crash(Call(s, "server", NoClient, "setPixelBuffer"), "nullderef")

\* ~SDisplay(): server = nullptr; if (core) stop();
SD_destroy(s) == IF s.core THEN SD_stopVia(s, FALSE) ELSE s

DestroySDisplay == Op("~SDisplay", NoClient, SD_destroy(Cur))

\* No operation reaches a destroyed backend.
DisplayAlive == lastOp.op # "~SDisplay"

NextDestroy ==
  \/ \E c \in Sockets : Alive /\ DisplayAlive /\ AddSocket(c, "accepted")
  \/ \E c \in Sockets, st \in StartOutcomes :
       Alive /\ DisplayAlive
         /\ QueryConnection(c, [QuietEnv EXCEPT !.start = st])
  \/ \E c \in Sockets : Alive /\ DisplayAlive /\ RemoveSocket(c, QuietEnv)
  \/ Alive /\ DisplayAlive /\ Shutdown
  \/ DisplayAlive /\ DestroySDisplay

SpecDestroy == InitDefault /\ [][NextDestroy]_vars

\* C32: when an SDisplay is destroyed, also while its core is still
\* active, no method is invoked on the VNCServer: the stop() run by the
\* destructor does not call setPixelBuffer or anything else on the
\* server, and it does not dereference the null server reference.
C32_DestructorLeavesServerAlone ==
  [][lastOp'.op = "~SDisplay" =>
       /\ fault' = "none"
       /\ \A i \in 1..Len(calls') : calls'[i].to # "server"]_vars

\* With the core stopped beforehand the destructor does nothing.
C32_StoppedDisplayDestroyedQuietly ==
  [][lastOp'.op = "~SDisplay" /\ ~core =>
       fault' = "none" /\ calls' = << >> /\ UNCHANGED CoordState]_vars

\* The SDisplay was destroyed with its core active, and its stop() called
\* setPixelBuffer through the null server reference.
C32_DestructorDereferencedNull ==
  /\ lastOp.op = "~SDisplay"
  /\ core /\ desktopStarted
  /\ fault = "nullderef"
  /\ calls = << [to |-> "server", c |-> NoClient, m |-> "setPixelBuffer",
                 arg |-> 0] >>

====
